---------------------------- MODULE Spec2Model ----------------------------
(***************************************************************************)
(* Model of the uzpayments-integration adapters: the Payme (Gateway B)     *)
(* JSON-RPC webhook dispatcher, the Click (Gateway A) two-phase webhook,   *)
(* and the outbound create/verify/cancel calls made through HttpClient.    *)
(*                                                                         *)
(* Text that the code slices, prefixes or concatenates is a sequence of    *)
(* one-character strings; names that are only compared (method names,      *)
(* error codes) are plain strings.  An optional value is a set with at     *)
(* most one element: {} is undefined/null, {x} is x.                       *)
(***************************************************************************)
EXTENDS Integers, Sequences, FiniteSets, TLC

VARIABLES
    now,          \* the reading Date.now() gives
    paymeCfg,     \* PaymeProvider.config (login, password)
    paymeLast,    \* the last Payme webhook call: {} or {[req, out]}
    trail,        \* what the webhook handlers reported to the host, in order
    clickCfg,     \* ClickProvider.config (secret_key)
    clickLast,    \* the last Click webhook call: {} or {[req, out]}
    prepares,     \* merchant_prepare_id values handed out, in order
    probe,        \* a verified request with one field changed, and the verdict on it
    httpClient,   \* HttpClient's fields (retries, retryDelay)
    call,         \* the outbound call in progress, and HttpClient.request's loop
    built,        \* the last construction of an adapter: {} or {[adapter, config, env, out]}
    applied,      \* the last payment URL made or gateway answer mapped: {} or {[adapter, ..., out]}
    calls         \* the calls of concurrent callers on one adapter instance, each with its locals

vars == <<now, paymeCfg, paymeLast, trail, clickCfg, clickLast, prepares, probe, httpClient, call, built, applied, calls>>

-----------------------------------------------------------------------------
(* Bounds of the model *)

MaxClock == 1
MaxTrail == 3
MaxPrepares == 2
MaxLedger == 2

-----------------------------------------------------------------------------
(* Text *)

RECURSIVE Concat(_)
Concat(parts) ==
    IF parts = <<>> THEN <<>> ELSE Head(parts) \o Concat(Tail(parts))

\* String.prototype.startsWith
startsWith(s, prefix) ==
    /\ Len(s) >= Len(prefix)
    /\ SubSeq(s, 1, Len(prefix)) = prefix

\* String.prototype.slice(n), n >= 0
slice(s, n) == SubSeq(s, n + 1, Len(s))

\* The byte of each character the model's credentials are written with.
Ord ==
    [c \in {"P", "a", "y", "c", "o", "m", ":", "k", "1", "2",
            "u", "n", "d", "e", "f", "i"} |->
        CASE c = "P" -> 80  [] c = "a" -> 97  [] c = "y" -> 121
          [] c = "c" -> 99  [] c = "o" -> 111 [] c = "m" -> 109
          [] c = ":" -> 58  [] c = "k" -> 107 [] c = "1" -> 49
          [] c = "2" -> 50  [] c = "u" -> 117 [] c = "n" -> 110
          [] c = "d" -> 100 [] c = "e" -> 101 [] c = "f" -> 102
          [] c = "i" -> 105]

Base64Alphabet ==
    << "A", "B", "C", "D", "E", "F", "G", "H", "I", "J", "K", "L", "M",
       "N", "O", "P", "Q", "R", "S", "T", "U", "V", "W", "X", "Y", "Z",
       "a", "b", "c", "d", "e", "f", "g", "h", "i", "j", "k", "l", "m",
       "n", "o", "p", "q", "r", "s", "t", "u", "v", "w", "x", "y", "z",
       "0", "1", "2", "3", "4", "5", "6", "7", "8", "9", "+", "/" >>

B64(n) == Base64Alphabet[n + 1]

\* Buffer.from(s).toString('base64'): three bytes to four characters, '=' padding.
RECURSIVE Base64Bytes(_)
Base64Bytes(b) ==
    IF Len(b) = 0 THEN <<>>
    ELSE IF Len(b) = 1 THEN
        LET n == b[1] * 65536
        IN  << B64(n \div 262144), B64((n \div 4096) % 64), "=", "=" >>
    ELSE IF Len(b) = 2 THEN
        LET n == b[1] * 65536 + b[2] * 256
        IN  << B64(n \div 262144), B64((n \div 4096) % 64),
               B64((n \div 64) % 64), "=" >>
    ELSE
        LET n == b[1] * 65536 + b[2] * 256 + b[3]
        IN  << B64(n \div 262144), B64((n \div 4096) % 64),
               B64((n \div 64) % 64), B64(n % 64) >>
            \o Base64Bytes(SubSeq(b, 4, Len(b)))

Base64(s) == Base64Bytes([i \in 1..Len(s) |-> Ord[s[i]]])

-----------------------------------------------------------------------------
(* What a call does: it returns a value or it throws *)

Return(v) == [kind |-> "return", value |-> v]
Throw(e) == [kind |-> "throw", error |-> e]

\* The error a property read of undefined throws.
TypeError ==
    [isError |-> TRUE, isAxios |-> FALSE, code |-> {}, status |-> {},
     message |-> "Cannot read properties of undefined"]

-----------------------------------------------------------------------------
(* Gateway B (Payme): interfaces *)

\* enum PaymeTransactionState
Created == 1
Completed == 2
Cancelled == -1
CancelledAfterComplete == -2

\* enum PaymeErrorCodes
MethodNotFound == -32601
AuthorizationFailure == -32504

DefaultLogin == <<"P", "a", "y", "c", "o", "m">>
Passwords == { <<"k", "1">>, <<"k", "2">> }
Ids == {"t1", "t2"}
Reasons == {3}

PaymeMethods ==
    {"CheckPerformTransaction", "CreateTransaction", "PerformTransaction",
     "CancelTransaction", "CheckTransaction", "GetStatement"}

\* a method name the dispatcher does not know
OtherMethods == {"Refund"}

\* The methods that report a transition of the transaction named by params.id.
LifecycleMethods == {"CreateTransaction", "PerformTransaction", "CancelTransaction"}

-----------------------------------------------------------------------------
(* Gateway B (Payme): the adapter *)

\* PaymeProvider.constructor: Buffer.from(`${login}:${password}`).toString('base64')
authorization(cfg) == Base64(cfg.login \o <<":">> \o cfg.password)

BasicPrefix == <<"B", "a", "s", "i", "c", " ">>

\* request.headers?.['Authorization']: headers is undefined ({}) or an object,
\* here the set of its <<name, value>> entries; names are case-sensitive keys.
AuthHeader(request) ==
    { e[2] : e \in { x \in UNION request.headers : x[1] = "Authorization" } }

\* A verifyWebhookAuthorization that checks the 'Basic ' prefix and not the token.
verifyWebhookAuthorization_PrefixOnly(cfg, request) ==
    \E a \in AuthHeader(request) : startsWith(a, BasicPrefix)

verifyWebhookAuthorization(cfg, request) ==
    LET authHeader == AuthHeader(request)
    IN  IF \A a \in authHeader : ~startsWith(a, BasicPrefix) THEN FALSE
        ELSE LET token == slice(CHOOSE a \in authHeader : TRUE, 6)
             IN  token = authorization(cfg)

\* const { ... } = request.params throws a TypeError when params is undefined
Params(request) == CHOOSE p \in request.params : TRUE

PaymeResult(r) == [result |-> {r}, error |-> {}]
\* An error envelope that also carries a result.
PaymeError_WithResult(code, message) ==
    [result |-> {[allow |-> FALSE]}, error |-> {[code |-> code, message |-> message]}]

PaymeError(code, message) ==
    [result |-> {}, error |-> {[code |-> code, message |-> message]}]

handleCheckPerformTransaction(request, t) ==
    IF request.params = {} THEN Throw(TypeError)
    ELSE Return(PaymeResult([allow |-> TRUE]))

\* A handleCreateTransaction that stamps create_time with the time the request carries.
handleCreateTransaction_RequestTime(request, t) ==
    IF request.params = {} THEN Throw(TypeError)
    ELSE Return(PaymeResult([create_time |-> Params(request).time,
                             transaction |-> Params(request).id,
                             state |-> Created]))

handleCreateTransaction(request, t) ==
    IF request.params = {} THEN Throw(TypeError)
    ELSE Return(PaymeResult([create_time |-> t,
                             transaction |-> Params(request).id,
                             state |-> Created]))

\* A handlePerformTransaction that stamps perform_time and leaves the state Created.
handlePerformTransaction_StaysCreated(request, t) ==
    IF request.params = {} THEN Throw(TypeError)
    ELSE Return(PaymeResult([transaction |-> Params(request).id,
                             perform_time |-> t,
                             state |-> Created]))

handlePerformTransaction(request, t) ==
    IF request.params = {} THEN Throw(TypeError)
    ELSE Return(PaymeResult([transaction |-> Params(request).id,
                             perform_time |-> t,
                             state |-> Completed]))

\* A handleCancelTransaction that reports every cancellation as one made after
\* completion.
handleCancelTransaction_AfterComplete(request, t) ==
    IF request.params = {} THEN Throw(TypeError)
    ELSE Return(PaymeResult([transaction |-> Params(request).id,
                             cancel_time |-> t,
                             state |-> CancelledAfterComplete]))

handleCancelTransaction(request, t) ==
    IF request.params = {} THEN Throw(TypeError)
    ELSE Return(PaymeResult([transaction |-> Params(request).id,
                             cancel_time |-> t,
                             state |-> Cancelled]))

handleCheckTransaction(request, t) ==
    IF request.params = {} THEN Throw(TypeError)
    ELSE Return(PaymeResult([create_time |-> {t},
                             perform_time |-> {t},
                             cancel_time |-> {},
                             transaction |-> Params(request).id,
                             state |-> Created,
                             reason |-> {}]))

handleGetStatement(request, t) ==
    IF request.params = {} THEN Throw(TypeError)
    ELSE Return(PaymeResult([transactions |-> <<>>]))

\* A handleWebhook whose switch has no case for GetStatement.
PaymeHandleWebhook_NoStatement(cfg, request, t) ==
    IF ~verifyWebhookAuthorization(cfg, request)
    THEN Return(PaymeError(AuthorizationFailure, "Invalid authorization"))
    ELSE CASE request.method = "CheckPerformTransaction" ->
                  handleCheckPerformTransaction(request, t)
           [] request.method = "CreateTransaction" ->
                  handleCreateTransaction(request, t)
           [] request.method = "PerformTransaction" ->
                  handlePerformTransaction(request, t)
           [] request.method = "CancelTransaction" ->
                  handleCancelTransaction(request, t)
           [] request.method = "CheckTransaction" ->
                  handleCheckTransaction(request, t)
           [] OTHER ->
                  Return(PaymeError(MethodNotFound, "Method not found"))

\* PaymeProvider.handleWebhook, with t the reading of Date.now()
PaymeHandleWebhook(cfg, request, t) ==
    IF ~verifyWebhookAuthorization(cfg, request)
    THEN Return(PaymeError(AuthorizationFailure, "Invalid authorization"))
    ELSE CASE request.method = "CheckPerformTransaction" ->
                  handleCheckPerformTransaction(request, t)
           [] request.method = "CreateTransaction" ->
                  handleCreateTransaction(request, t)
           [] request.method = "PerformTransaction" ->
                  handlePerformTransaction(request, t)
           [] request.method = "CancelTransaction" ->
                  handleCancelTransaction(request, t)
           [] request.method = "CheckTransaction" ->
                  handleCheckTransaction(request, t)
           [] request.method = "GetStatement" ->
                  handleGetStatement(request, t)
           [] OTHER ->
                  Return(PaymeError(MethodNotFound, "Method not found"))

-----------------------------------------------------------------------------
(* Gateway B (Payme): the requests the webhook endpoint receives *)

Token(pw) == Base64(DefaultLogin \o <<":">> \o pw)

\* Values of the Authorization header: the Basic form of each password's token,
\* and forms that are not 'Basic ' followed by a token.
AuthValues ==
    { BasicPrefix \o Token(pw) : pw \in Passwords }
        \cup { Token(pw) : pw \in Passwords }
        \cup { <<"b", "a", "s", "i", "c", " ">> \o Token(pw) : pw \in Passwords }
        \cup { <<"B", "a", "s", "i", "c">> \o Token(pw) : pw \in Passwords }
        \cup { BasicPrefix \o Token(pw) \o <<"=">> : pw \in Passwords }
        \cup { BasicPrefix, <<>> }

\* headers: absent, without the key, with the key, with the key in lower case
HeaderChoices ==
    { {} } \cup { { {} } }
        \cup { { { <<"Authorization", v>> } } : v \in AuthValues }
        \cup { { { <<"authorization", BasicPrefix \o Token(pw)>> } } : pw \in Passwords }

ParamChoices == { {} } \cup { { [id |-> i, reason |-> r] } : i \in Ids, r \in Reasons }

PaymeRequests(hs) ==
    [method : PaymeMethods \cup OtherMethods, params : ParamChoices, headers : hs]

\* What the host persists of a response: the transition it reports.
Reported(req, out) ==
    /\ out.kind = "return"
    /\ out.value.result # {}
    /\ req.method \in LifecycleMethods

Transition(req, out) ==
    LET r == CHOOSE x \in out.value.result : TRUE
    IN  [method |-> req.method, id |-> r.transaction, state |-> r.state]

-----------------------------------------------------------------------------
(* JavaScript values of webhook fields: a string, a number, or undefined *)

Str(s) == [str |-> s]
Num(n) == [num |-> n]
Undef == [undef |-> TRUE]
NaN == [nan |-> TRUE]
\* a string constant of the code, whose characters nothing examines
Lit(s) == [lit |-> s]

IsStr(v) == DOMAIN v = {"str"}
IsNum(v) == DOMAIN v = {"num"}

Digits == <<"0", "1", "2", "3", "4", "5", "6", "7", "8", "9">>

\* String(n) of an integer
RECURSIVE NatToStr(_)
NatToStr(n) ==
    IF n < 10 THEN <<Digits[n + 1]>>
    ELSE NatToStr(n \div 10) \o <<Digits[(n % 10) + 1]>>

IntToStr(n) == IF n < 0 THEN <<"-">> \o NatToStr(-n) ELSE NatToStr(n)

\* The text Array.prototype.join gives a value: undefined joins as ''.
ToText(v) ==
    IF IsStr(v) THEN v.str
    ELSE IF IsNum(v) THEN IntToStr(v.num)
    ELSE <<>>

IsDigit(c) == \E k \in 1..10 : Digits[k] = c
DigitValue(c) == (CHOOSE k \in 1..10 : Digits[k] = c) - 1

RECURSIVE DigitsToNat(_)
DigitsToNat(s) ==
    IF s = <<>> THEN 0
    ELSE DigitsToNat(SubSeq(s, 1, Len(s) - 1)) * 10 + DigitValue(s[Len(s)])

AllDigits(s) == \A k \in 1..Len(s) : IsDigit(s[k])

\* Number(v), as unary plus and the relational operators convert
ToNumber(v) ==
    IF IsNum(v) THEN v
    ELSE IF IsStr(v) THEN
        IF v.str = <<>> THEN Num(0)
        ELSE IF AllDigits(v.str) THEN Num(DigitsToNat(v.str))
        ELSE IF Len(v.str) > 1 /\ Head(v.str) = "-" /\ AllDigits(Tail(v.str))
             THEN Num(-DigitsToNat(Tail(v.str)))
        ELSE NaN
    ELSE NaN

\* v < 0
LessThanZero(v) == IsNum(ToNumber(v)) /\ ToNumber(v).num < 0

-----------------------------------------------------------------------------
(* Gateway A (Click): the adapter *)

\* enum ClickErrorCodes
Success == 0
SignatureFailure == -1
BadRequest == -8

\* createHash('md5').update(s).digest('hex'), taken as collision-free: the digest
\* of s is written md5 followed by s, so two digests are equal exactly when
\* their inputs are.
md5(s) == <<"md5">> \o s

\* A generateSignature that joins the property names, Object.keys(data), and so
\* signs nothing of the values.
generateSignature_Keys(cfg, data) ==
    md5([k \in 1..Len(data) |-> "k"] \o cfg.secret_key)

\* ClickProvider.generateSignature; data is Object.values(data), in key order.
generateSignature(cfg, data) ==
    LET signString == Concat([k \in 1..Len(data) |-> ToText(data[k])])
    IN  md5(signString \o cfg.secret_key)

signParams(request) ==
    << request.click_trans_id, request.service_id, request.click_paydoc_id,
       request.merchant_trans_id, request.amount, request.action,
       request.sign_time >>

verifyWebhookSignature(cfg, request) ==
    LET signature == generateSignature(cfg, signParams(request))
    IN  Str(signature) = request.sign_string

\* A handlePreparePay that, like handleCompletePay, passes a negative inbound
\* error through instead of preparing.
handlePreparePay_ChecksError(request, t) ==
    IF LessThanZero(request.error)
    THEN Return([click_trans_id |-> ToNumber(request.click_trans_id),
                 merchant_trans_id |-> request.merchant_trans_id,
                 error |-> request.error,
                 error_note |-> request.error_note])
    ELSE Return([click_trans_id |-> ToNumber(request.click_trans_id),
                 merchant_trans_id |-> request.merchant_trans_id,
                 merchant_prepare_id |-> t,
                 error |-> Num(Success),
                 error_note |-> Lit("Success")])

handlePreparePay(request, t) ==
    LET prepare_id == t
    IN  Return([click_trans_id |-> ToNumber(request.click_trans_id),
                merchant_trans_id |-> request.merchant_trans_id,
                merchant_prepare_id |-> prepare_id,
                error |-> Num(Success),
                error_note |-> Lit("Success")])

\* A handleCompletePay that passes through a reported failure only when error is -1.
handleCompletePay_OnlyMinusOne(request, t) ==
    IF request.error = Num(-1)
    THEN Return([click_trans_id |-> ToNumber(request.click_trans_id),
                 merchant_trans_id |-> request.merchant_trans_id,
                 error |-> request.error,
                 error_note |-> request.error_note])
    ELSE Return([click_trans_id |-> ToNumber(request.click_trans_id),
                 merchant_trans_id |-> request.merchant_trans_id,
                 merchant_confirm_id |-> t,
                 error |-> Num(Success),
                 error_note |-> Lit("Success")])

handleCompletePay(request, t) ==
    IF LessThanZero(request.error)
    THEN Return([click_trans_id |-> ToNumber(request.click_trans_id),
                 merchant_trans_id |-> request.merchant_trans_id,
                 error |-> request.error,
                 error_note |-> request.error_note])
    ELSE LET confirm_id == t
         IN  Return([click_trans_id |-> ToNumber(request.click_trans_id),
                     merchant_trans_id |-> request.merchant_trans_id,
                     merchant_confirm_id |-> confirm_id,
                     error |-> Num(Success),
                     error_note |-> Lit("Success")])

\* A handleWebhook that takes every action other than 0 for Complete.
ClickHandleWebhook_NoBadRequest(cfg, request, t) ==
    IF ~verifyWebhookSignature(cfg, request)
    THEN Return([click_trans_id |-> ToNumber(request.click_trans_id),
                 merchant_trans_id |-> request.merchant_trans_id,
                 error |-> Num(SignatureFailure),
                 error_note |-> Lit("Invalid signature")])
    ELSE IF request.action = Num(0) THEN handlePreparePay(request, t)
    ELSE handleCompletePay(request, t)

\* A handleWebhook that answers Prepare before it checks the signature.
ClickHandleWebhook_PrepareUnchecked(cfg, request, t) ==
    IF request.action = Num(0) THEN handlePreparePay(request, t)
    ELSE IF ~verifyWebhookSignature(cfg, request)
    THEN Return([click_trans_id |-> ToNumber(request.click_trans_id),
                 merchant_trans_id |-> request.merchant_trans_id,
                 error |-> Num(SignatureFailure),
                 error_note |-> Lit("Invalid signature")])
    ELSE IF request.action = Num(1) THEN handleCompletePay(request, t)
    ELSE Return([click_trans_id |-> ToNumber(request.click_trans_id),
                 merchant_trans_id |-> request.merchant_trans_id,
                 error |-> Num(BadRequest),
                 error_note |-> Lit("Invalid action")])

\* ClickProvider.handleWebhook, with t the reading of Date.now()
ClickHandleWebhook(cfg, request, t) ==
    IF ~verifyWebhookSignature(cfg, request)
    THEN Return([click_trans_id |-> ToNumber(request.click_trans_id),
                 merchant_trans_id |-> request.merchant_trans_id,
                 error |-> Num(SignatureFailure),
                 error_note |-> Lit("Invalid signature")])
    ELSE IF request.action = Num(0) THEN handlePreparePay(request, t)
    ELSE IF request.action = Num(1) THEN handleCompletePay(request, t)
    ELSE Return([click_trans_id |-> ToNumber(request.click_trans_id),
                 merchant_trans_id |-> request.merchant_trans_id,
                 error |-> Num(BadRequest),
                 error_note |-> Lit("Invalid action")])

-----------------------------------------------------------------------------
(* Gateway A (Click): the requests the webhook endpoint receives *)

Secrets == { <<"s">>, <<"s", "7">> }

\* The values each request field takes.  Neighbouring text fields have values
\* that join to the same text when split differently ("1","23" and "12","3").
ClickFieldValues ==
    [click_trans_id    |-> { Str(<<"1">>), Str(<<"1", "2">>) },
     service_id        |-> { Str(<<"2", "3">>), Str(<<"3">>) },
     click_paydoc_id   |-> { Str(<<"9">>), Str(<<"8">>) },
     merchant_trans_id |-> { Str(<<"o", "1">>), Str(<<"o", "2">>) },
     amount            |-> { Num(500), Num(50) },
     action            |-> { Num(0), Num(1), Num(2) },
     sign_time         |-> { Str(<<"7">>), Str(<<"7", "7">>) },
     error             |-> { Num(-5), Num(0), Num(2) },
     error_note        |-> { Str(<<"o", "k">>), Str(<<"n", "o">>) },
     merchant_prepare_id |-> { Undef, Str(<<"1">>) }]

\* The requests of the model: the fields the handlers branch on take all
\* their values, the others one.
ClickUnsigned ==
    [click_trans_id    : ClickFieldValues.click_trans_id,
     service_id        : { Str(<<"2", "3">>) },
     click_paydoc_id   : { Str(<<"9">>) },
     merchant_trans_id : { Str(<<"o", "1">>) },
     amount            : { Num(500) },
     action            : ClickFieldValues.action,
     sign_time         : { Str(<<"7">>) },
     error             : ClickFieldValues.error,
     error_note        : ClickFieldValues.error_note,
     merchant_prepare_id : { Undef }]

WithSign(r, sig) ==
    [click_trans_id    |-> r.click_trans_id,
     service_id        |-> r.service_id,
     click_paydoc_id   |-> r.click_paydoc_id,
     merchant_trans_id |-> r.merchant_trans_id,
     amount            |-> r.amount,
     action            |-> r.action,
     sign_time         |-> r.sign_time,
     error             |-> r.error,
     error_note        |-> r.error_note,
     merchant_prepare_id |-> r.merchant_prepare_id,
     sign_string       |-> sig]

\* sign_string: the gateway's signature under each secret, or no digest at all.
ClickSignatures(r) ==
    { Str(generateSignature([secret_key |-> k], signParams(r))) : k \in Secrets }
        \cup { Str(<<"b", "a", "d">>) }

ClickRequests ==
    UNION { { WithSign(r, sig) : sig \in ClickSignatures(r) } : r \in ClickUnsigned }

-----------------------------------------------------------------------------
(* Outbound calls: values *)

Bool(b) == [bool |-> b]
Obj(o) == [obj |-> o]

\* o.k of an object: undefined when the property is missing
Get(o, k) == IF k \in DOMAIN o THEN o[k] ELSE Undef

\* the conversion to boolean of the ?: operator
Truthy(v) ==
    IF IsNum(v) THEN v.num # 0
    ELSE IF IsStr(v) THEN v.str # <<>>
    ELSE IF DOMAIN v = {"bool"} THEN v.bool
    ELSE DOMAIN v \in {{"obj"}, {"lit"}}

\* What the transport throws.  message is the error's text; MessageParts gives
\* the texts String.prototype.includes finds in it.
AxiosTimeout ==
    [isError |-> TRUE, isAxios |-> TRUE, code |-> {"ECONNABORTED"}, status |-> {},
     message |-> "timeout of 30000ms exceeded"]
AxiosNetwork ==
    [isError |-> TRUE, isAxios |-> TRUE, code |-> {"ERR_NETWORK"}, status |-> {},
     message |-> "Network Error"]
AxiosStatus(n) ==
    [isError |-> TRUE, isAxios |-> TRUE, status |-> {n},
     code |-> IF n >= 500 THEN {"ERR_BAD_RESPONSE"} ELSE {"ERR_BAD_REQUEST"},
     message |-> "Request failed with status code"]
PlainError(m) ==
    [isError |-> TRUE, isAxios |-> FALSE, code |-> {}, status |-> {}, message |-> m]
\* a rejection with a value that is not an Error
NotAnError ==
    [isError |-> FALSE, isAxios |-> FALSE, code |-> {}, status |-> {}, message |-> ""]

MessageParts(m) ==
    CASE m = "timeout of 30000ms exceeded" -> {"timeout"}
      [] m = "Network Error" -> {"Network Error"}
      [] m = "socket hang up ECONNABORTED" -> {"ECONNABORTED"}
      [] OTHER -> {}

includes(m, part) == part \in MessageParts(m)

-----------------------------------------------------------------------------
(* HttpClient *)

\* HttpClient.constructor defaults
DefaultRetries == 3
DefaultRetryDelay == 1000

\* An isRetryableError that does not retry a 5xx status.
isRetryableError_No5xx(error) ==
    IF error.isAxios
    THEN \/ error.code = {"ECONNABORTED"}
         \/ includes(error.message, "timeout")
         \/ includes(error.message, "Network Error")
         \/ error.status = {429}
    ELSE FALSE

\* An isRetryableError that takes every HTTP error status for retryable.
isRetryableError_AnyStatus(error) ==
    IF error.isAxios
    THEN \/ error.code = {"ECONNABORTED"}
         \/ includes(error.message, "timeout")
         \/ includes(error.message, "Network Error")
         \/ \E status \in error.status : status >= 400
    ELSE FALSE

isRetryableError(error) ==
    IF error.isAxios
    THEN \/ error.code = {"ECONNABORTED"}
         \/ includes(error.message, "timeout")
         \/ includes(error.message, "Network Error")
         \/ \E status \in error.status : status >= 500
         \/ error.status = {429}
    ELSE FALSE

RECURSIVE Pow2(_)
Pow2(n) == IF n = 0 THEN 1 ELSE 2 * Pow2(n - 1)

\* A backoff that grows by retryDelay with each attempt.
backoff_Linear(client, attempt) == client.retryDelay * (attempt + 1)

\* the delay before the next attempt: retryDelay * Math.pow(2, attempt)
backoff(client, attempt) == client.retryDelay * Pow2(attempt)

\* A retry condition that allows one attempt more: attempt <= this.retries.
retries_again_OneMore(client, attempt, error) ==
    attempt <= client.retries /\ isRetryableError(error)

\* The catch branch of HttpClient.request after a failed attempt: wait and go on?
retries_again(client, attempt, error) ==
    attempt < client.retries /\ isRetryableError(error)

-----------------------------------------------------------------------------
(* Outbound calls: the adapters *)

Adapters == {"click", "payme", "payme2"}
Operations == {"createPayment", "verifyPayment", "cancelPayment"}

\* A mapClickStatus that takes every negative status for a cancellation.
mapClickStatus_NegativeCancelled(status) ==
    CASE status = Num(1) -> "completed"
      [] status = Num(0) -> "pending"
      [] IsNum(status) /\ status.num < 0 -> "cancelled"
      [] OTHER -> "failed"

\* ClickProvider.mapClickStatus
mapClickStatus(status) ==
    CASE status = Num(1) -> "completed"
      [] status = Num(0) -> "pending"
      [] status = Num(-1) -> "cancelled"
      [] OTHER -> "failed"

\* PaymeProvider.mapPaymeStatus
mapPaymeStatus(state) ==
    CASE state = Num(Completed) -> "completed"
      [] state = Num(Created) -> "pending"
      [] state = Num(Cancelled) -> "cancelled"
      [] state = Num(CancelledAfterComplete) -> "cancelled"
      [] OTHER -> "failed"

\* the status expression of the second PaymeProvider.verifyPayment
mapPayme2Status(state) ==
    IF state = Num(2) THEN "completed"
    ELSE IF state = Num(1) THEN "pending"
    ELSE IF state = Num(-1) THEN "cancelled"
    ELSE "failed"

\* new Date(v) when v is truthy, else undefined
DateOrUndef(v) == IF Truthy(v) THEN [date |-> v] ELSE Undef

\* A conversion that returns the gateway's amount as it is, in tiyin.
DivideBy100_Unscaled(v) == v

\* amount / 100: a number; not an integer when amount is no multiple of 100
DivideBy100(v) ==
    IF ~IsNum(v) THEN NaN
    ELSE IF v.num % 100 = 0 THEN Num(v.num \div 100)
    ELSE [ratio |-> <<v.num, 100>>]

\* order.amount.amount throws a TypeError when order.amount is undefined
AmountOf(order) == CHOOSE a \in order.amount : TRUE

\* the order argument of createPayment
AnOrder(order) == CHOOSE o \in order : TRUE

\* An object is kept as its entries <<key, value>> in insertion order.
Entries(e) == [entries |-> e]

\* o[k] = v: a key the object has keeps its place and takes the new value
Assign(o, k, v) ==
    IF \E i \in 1..Len(o) : o[i][1] = k
    THEN [i \in 1..Len(o) |-> IF o[i][1] = k THEN <<k, v>> ELSE o[i]]
    ELSE Append(o, <<k, v>>)

\* The object literal { k1: v1, k2: v2, ...spread }: its properties and the
\* spread object's entries are assigned from left to right.
RECURSIVE ObjectLiteral(_)
ObjectLiteral(e) ==
    IF e = <<>> THEN <<>>
    ELSE LET last == e[Len(e)]
         IN  CHOOSE r \in { Assign(o, last[1], last[2]) :
                              o \in {ObjectLiteral(SubSeq(e, 1, Len(e) - 1))} } : TRUE

\* o[k], undefined when the object has no such key
Lookup(o, k) ==
    IF \E i \in 1..Len(o) : o[i][1] = k
    THEN o[CHOOSE i \in 1..Len(o) : o[i][1] = k][2]
    ELSE Undef

\* ...order.extra_params and ...(order.extra_params || {}): nothing when undefined
ExtraParams(order) ==
    IF order.extra_params = {} THEN <<>> ELSE CHOOSE e \in order.extra_params : TRUE

\* JSON.stringify, Buffer.toString('base64') and encodeParams (base64 made
\* URL-safe, padding dropped) are taken as lossless encodings of their argument.
JSONstringify(v) == [json |-> v]
ToBase64(v) == [base64 |-> v]
encodeParams(params) == [base64url |-> JSONstringify(Entries(params))]

\* The merchant_id and service_id of the adapter's config.
UrlConfig == [merchant_id |-> Lit("m1"), service_id |-> Lit("23")]

\* A Click generatePaymentUrl that writes the amount in tiyin, as Payme's does.
generatePaymentUrl_ClickInTiyin(adapter, order) ==
    IF order.amount = {} THEN Throw(TypeError)
    ELSE Return([baseUrl |-> "click.uz/services/pay",
                 query |-> ObjectLiteral(
                    << <<"service_id", UrlConfig.service_id>>,
                       <<"merchant_id", UrlConfig.merchant_id>>,
                       <<"amount", Str(IntToStr(AmountOf(order) * 100))>>,
                       <<"transaction_param", Lit(order.id)>>,
                       <<"return_url", Str(<<>>)>> >> \o ExtraParams(order))])

\* generatePaymentUrl of the three adapters.  The URL is its base and what
\* follows it: Click's query string (the entries of URLSearchParams), Payme's
\* base64 of the query string, the second PaymeProvider's encodeParams.
generatePaymentUrl(adapter, order) ==
    IF order.amount = {} THEN Throw(TypeError)
    ELSE CASE adapter = "click" ->
                  Return([baseUrl |-> "click.uz/services/pay",
                          query |-> ObjectLiteral(
                             << <<"service_id", UrlConfig.service_id>>,
                                <<"merchant_id", UrlConfig.merchant_id>>,
                                <<"amount", Str(IntToStr(AmountOf(order)))>>,
                                <<"transaction_param", Lit(order.id)>>,
                                <<"return_url", Str(<<>>)>> >> \o ExtraParams(order))])
           [] adapter = "payme" ->
                  Return([baseUrl |-> "paycom.uz",
                          encodedParams |-> ToBase64(ObjectLiteral(
                             << <<"m", UrlConfig.merchant_id>>,
                                <<"a", Str(IntToStr(AmountOf(order) * 100))>>,
                                <<"ac", JSONstringify(Entries(ObjectLiteral(
                                            << <<"order_id", Lit(order.id)>> >>
                                                \o ExtraParams(order))))>>,
                                <<"l", Str(<<>>)>>,
                                <<"c", Str(<<>>)>> >>))])
           [] adapter = "payme2" ->
                  Return([baseUrl |-> "checkout.paycom.uz",
                          encodedParams |-> encodeParams(ObjectLiteral(
                             << <<"m", UrlConfig.merchant_id>>,
                                <<"ac", Entries(ObjectLiteral(
                                            << <<"order_id", Lit(order.id)>> >>
                                                \o ExtraParams(order)))>>,
                                <<"a", Num(AmountOf(order))>>,
                                <<"l", Str(<<>>)>>,
                                <<"c", Str(<<>>)>> >>))])

\* The statements of an operation after response = await httpClient.request(...),
\* data being response.data ({} when the body is empty).
AfterResponse(adapter, op, order, data) ==
    IF data = {} THEN Throw(TypeError)
    ELSE LET d == CHOOSE x \in data : TRUE
             r == Get(d, "result")
         IN  CASE adapter = "click" /\ op = "verifyPayment" ->
                      Return([success |-> Get(d, "success"),
                              transaction_id |-> Get(d, "transaction_id"),
                              status |-> mapClickStatus(Get(d, "status")),
                              paid_amount |-> Get(d, "amount"),
                              paid_time |-> DateOrUndef(Get(d, "payment_time")),
                              error |-> Get(d, "error")])
               [] adapter = "payme2" /\ op = "verifyPayment" ->
                      Return([success |-> Get(d, "success"),
                              transaction_id |-> Get(d, "transaction_id"),
                              status |-> mapPayme2Status(Get(d, "state")),
                              paid_amount |-> Get(d, "amount"),
                              paid_time |-> DateOrUndef(Get(d, "paid_time")),
                              error |-> Get(d, "error")])
               [] adapter \in {"click", "payme2"} /\ op = "cancelPayment" ->
                      Return([success |-> Get(d, "success"),
                              transaction_id |-> Get(d, "transaction_id"),
                              error |-> Get(d, "error")])
               [] adapter = "payme" /\ DOMAIN r # {"obj"} ->
                      Throw(TypeError)
               [] adapter = "payme" /\ op = "verifyPayment" ->
                      Return([success |-> Bool(TRUE),
                              transaction_id |-> Get(r.obj, "transaction"),
                              status |-> mapPaymeStatus(Get(r.obj, "state")),
                              paid_amount |-> DivideBy100(Get(r.obj, "amount")),
                              paid_time |-> DateOrUndef(Get(r.obj, "perform_time"))])
               [] adapter = "payme" /\ op = "cancelPayment" ->
                      Return([success |-> Bool(TRUE),
                              transaction_id |-> Get(r.obj, "transaction")])
               [] adapter = "payme" /\ op = "createPayment" ->
                      LET url == generatePaymentUrl(adapter, AnOrder(order))
                      IN  IF url.kind = "throw" THEN url
                          ELSE Return([success |-> Bool(TRUE),
                                       payment_url |-> url.value,
                                       transaction_id |-> Get(r.obj, "transaction")])

\* The payload PaymeProvider.createPayment sends, t being the reading of Date.now().
CreatePayload(order, t) ==
    [method |-> "CreateTransaction",
     params |-> [amount |-> AmountOf(order) * 100,
                 account |-> Entries(ObjectLiteral(<< <<"order_id", Lit(order.id)>> >>
                                                     \o ExtraParams(order))),
                 time |-> t \div 1000]]

\* the try block has reached await this.httpClient.request(...)
Await == [await |-> TRUE]

\* A createPayment that registers the order with the gateway on every adapter,
\* as the first PaymeProvider's does.
BeforeRequest_AlwaysSends(adapter, op, order) ==
    IF op = "createPayment" /\ AnOrder(order).amount = {} THEN Throw(TypeError)
    ELSE Return(Await)

\* The statements of an operation before it awaits the transport; for an
\* operation that sends nothing, all of its try block.
BeforeRequest(adapter, op, order) ==
    IF op # "createPayment" THEN Return(Await)
    ELSE IF adapter = "payme"
    THEN IF AnOrder(order).amount = {} THEN Throw(TypeError) ELSE Return(Await)
    ELSE LET url == generatePaymentUrl(adapter, AnOrder(order))
         IN  IF url.kind = "throw" THEN url
             ELSE Return([success |-> Bool(TRUE),
                          payment_url |-> url.value,
                          transaction_id |-> AnOrder(order).id])

ErrorMessage(error) == IF error.isError THEN error.message ELSE "Unknown error"

isTimeout(error) ==
    /\ error.isError
    /\ includes(error.message, "timeout") \/ includes(error.message, "ECONNABORTED")

OwnCode(op) ==
    CASE op = "createPayment" -> "PAYMENT_CREATE_ERROR"
      [] op = "verifyPayment" -> "PAYMENT_VERIFY_ERROR"
      [] op = "cancelPayment" -> "PAYMENT_CANCEL_ERROR"

\* A catch block that handles Error objects and lets any other thrown value pass.
Catch_ErrorsOnly(adapter, op, error) ==
    IF ~error.isError THEN Throw(error)
    ELSE Return([success |-> Bool(FALSE),
                 error |-> Obj([code |-> OwnCode(op), message |-> ErrorMessage(error)])])

\* The catch block of each operation.
Catch(adapter, op, error) ==
    IF op = "verifyPayment"
    THEN Return([success |-> Bool(FALSE),
                 status |-> "failed",
                 error |-> Obj([code |-> IF isTimeout(error) THEN "PAYMENT_TIMEOUT"
                                         ELSE "PAYMENT_VERIFY_ERROR",
                                message |-> ErrorMessage(error)])])
    ELSE Return([success |-> Bool(FALSE),
                 error |-> Obj([code |-> OwnCode(op), message |-> ErrorMessage(error)])])

\* try { body } catch (error) { ... }
TryCatch(adapter, op, body) ==
    IF body.kind = "throw" THEN Catch(adapter, op, body.error) ELSE body

-----------------------------------------------------------------------------
(* Construction of the adapters *)

\* !v of an optional value: undefined, the empty string and 0 are falsy.  Names
\* (merchant_id, service_id, NODE_ENV) are strings, secrets and logins are texts,
\* counts are numbers.
FalsyName(v) == v \in { {}, {""} }
FalsyText(v) == v \in { {}, {<<>>} }
FalsyNum(v) == v \in { {}, {0} }

\* a || b
OrName(a, b) == IF FalsyName(a) THEN b ELSE a
OrText(a, b) == IF FalsyText(a) THEN b ELSE a
OrNum(a, b) == IF FalsyNum(a) THEN b ELSE a

\* a ?? b
Nullish(a, b) == IF a = {} THEN b ELSE a

\* `${v}` of a template string: undefined is written 'undefined'
TemplateText(v) ==
    IF v = {} THEN <<"u", "n", "d", "e", "f", "i", "n", "e", "d">>
    ELSE CHOOSE x \in v : TRUE

\* config.test_mode ?? (process.env.NODE_ENV !== 'production')
TestMode(config, env) == Nullish(config.test_mode, {env.NODE_ENV # {"production"}})

\* A ClickProvider constructor that prefers the environment to the explicit config.
ClickConstructor_EnvFirst(config, env) ==
    IF FalsyName(config.merchant_id) /\ FalsyName(env.CLICK_MERCHANT_ID)
    THEN Throw(PlainError("merchant_id is required"))
    ELSE IF FalsyText(config.secret_key) /\ FalsyText(env.CLICK_SECRET)
    THEN Throw(PlainError("secret_key is required"))
    ELSE LET test_mode == TestMode(config, env)
         IN  Return([config |->
                        [merchant_id |-> OrName(env.CLICK_MERCHANT_ID, config.merchant_id),
                         service_id |-> OrName(OrName(env.CLICK_SERVICE_ID, config.service_id), {""}),
                         secret_key |-> OrText(env.CLICK_SECRET, config.secret_key),
                         test_mode |-> test_mode,
                         timeout |-> OrNum(config.timeout, {30000}),
                         retries |-> OrNum(config.retries, {3}),
                         retry_delay |-> OrNum(config.retry_delay, {1000})],
                     baseUrl |-> IF test_mode = {TRUE}
                                 THEN "https://test.click.uz/services/pay"
                                 ELSE "https://my.click.uz/services/pay",
                     merchantApiUrl |-> IF test_mode = {TRUE}
                                        THEN "https://test.click.uz/api/v2/merchant"
                                        ELSE "https://click.uz/api/v2/merchant"])

\* ClickProvider.constructor
ClickConstructor(config, env) ==
    IF FalsyName(config.merchant_id) /\ FalsyName(env.CLICK_MERCHANT_ID)
    THEN Throw(PlainError("merchant_id is required"))
    ELSE IF FalsyText(config.secret_key) /\ FalsyText(env.CLICK_SECRET)
    THEN Throw(PlainError("secret_key is required"))
    ELSE LET test_mode == TestMode(config, env)
         IN  Return([config |->
                        [merchant_id |-> OrName(config.merchant_id, env.CLICK_MERCHANT_ID),
                         service_id |-> OrName(OrName(config.service_id, env.CLICK_SERVICE_ID), {""}),
                         secret_key |-> OrText(config.secret_key, env.CLICK_SECRET),
                         test_mode |-> test_mode,
                         timeout |-> OrNum(config.timeout, {30000}),
                         retries |-> OrNum(config.retries, {3}),
                         retry_delay |-> OrNum(config.retry_delay, {1000})],
                     baseUrl |-> IF test_mode = {TRUE}
                                 THEN "https://test.click.uz/services/pay"
                                 ELSE "https://my.click.uz/services/pay",
                     merchantApiUrl |-> IF test_mode = {TRUE}
                                        THEN "https://test.click.uz/api/v2/merchant"
                                        ELSE "https://click.uz/api/v2/merchant"])

\* PaymeProvider.constructor
PaymeConstructor(config, env) ==
    IF FalsyName(config.merchant_id) /\ FalsyName(env.PAYME_MERCHANT_ID)
    THEN Throw(PlainError("merchant_id is required"))
    ELSE IF /\ FalsyText(config.password)
            /\ FalsyText(env.PAYME_PASSWORD)
            /\ FalsyText(env.PAYME_PASSWORD_TEST)
    THEN Throw(PlainError("password is required"))
    ELSE LET isTestMode == TestMode(config, env)
             login == OrText(OrText(config.login, env.PAYME_LOGIN), {DefaultLogin})
             password == OrText(config.password,
                                IF isTestMode = {TRUE} THEN env.PAYME_PASSWORD_TEST
                                ELSE env.PAYME_PASSWORD)
         IN  Return([config |->
                        [merchant_id |-> OrName(config.merchant_id, env.PAYME_MERCHANT_ID),
                         login |-> login,
                         password |-> password,
                         test_mode |-> isTestMode,
                         timeout |-> OrNum(config.timeout, {30000}),
                         retries |-> OrNum(config.retries, {3}),
                         retry_delay |-> OrNum(config.retry_delay, {1000})],
                     authorization |-> authorization([login |-> TemplateText(login),
                                                      password |-> TemplateText(password)]),
                     baseUrl |-> IF isTestMode = {TRUE}
                                 THEN "https://test.paycom.uz"
                                 ELSE "https://checkout.paycom.uz",
                     merchantApiUrl |-> IF isTestMode = {TRUE}
                                        THEN "https://test.paycom.uz/api"
                                        ELSE "https://paycom.uz/api"])

\* new HttpClient(timeout, retries, retryDelay) with all three arguments given
HttpClientConstructor(timeout, retries, retryDelay) ==
    [timeout |-> timeout, retries |-> retries, retryDelay |-> retryDelay]

\* The constructor of the second PaymeProvider, which takes a PaymentConfig and
\* makes its own HttpClient.
Payme2Constructor(config, env) ==
    IF FalsyName(config.merchant_id) /\ FalsyName(env.PAYME_MERCHANT_ID)
    THEN Throw(PlainError("merchant_id is required"))
    ELSE IF FalsyText(config.secret_key) /\ FalsyText(env.PAYME_KEY)
    THEN Throw(PlainError("secret_key is required"))
    ELSE LET cfg == [merchant_id |-> OrName(config.merchant_id, env.PAYME_MERCHANT_ID),
                     secret_key |-> OrText(config.secret_key, env.PAYME_KEY),
                     test_mode |-> TestMode(config, env),
                     timeout |-> OrNum(config.timeout, {30000}),
                     retries |-> OrNum(config.retries, {3}),
                     retry_delay |-> OrNum(config.retry_delay, {1000})]
         IN  Return([config |-> cfg,
                     baseUrl |-> IF cfg.test_mode = {TRUE}
                                 THEN "https://test.paycom.uz/api"
                                 ELSE "https://paycom.uz/api",
                     checkoutUrl |-> IF cfg.test_mode = {TRUE}
                                     THEN "https://test.checkout.paycom.uz"
                                     ELSE "https://checkout.paycom.uz",
                     httpClient |-> HttpClientConstructor(cfg.timeout, cfg.retries,
                                                          cfg.retry_delay)])

\* The config objects passed to the constructors: each required field absent,
\* empty or given; the optional ones absent or given.
Configs ==
    [merchant_id : { {}, {""}, {"m1"} },
     service_id  : { {}, {"23"} },
     secret_key  : { {}, {<<"s">>} },
     login       : { {} },
     password    : { {}, {<<"k", "1">>} },
     test_mode   : { {}, {TRUE}, {FALSE} },
     timeout     : { {} },
     retries     : { {}, {0}, {1} },
     retry_delay : { {} }]

\* process.env
Envs ==
    [NODE_ENV            : { {}, {"production"} },
     CLICK_MERCHANT_ID   : { {}, {"m2"} },
     CLICK_SERVICE_ID    : { {} },
     CLICK_SECRET        : { {}, {<<"s", "7">>} },
     PAYME_MERCHANT_ID   : { {}, {"m2"} },
     PAYME_LOGIN         : { {} },
     PAYME_PASSWORD      : { {}, {<<"k", "2">>} },
     PAYME_PASSWORD_TEST : { {}, {<<"2", "k">>} },
     PAYME_KEY           : { {}, {<<"k">>} }]

\* The fields of the config and the variables of the environment each
\* constructor reads; the others are left absent.
ReadBy(adapter) ==
    CASE adapter = "click" ->
            {"merchant_id", "service_id", "secret_key", "test_mode", "retries",
             "NODE_ENV", "CLICK_MERCHANT_ID", "CLICK_SECRET"}
      [] adapter = "payme" ->
            {"merchant_id", "password", "test_mode", "retries",
             "NODE_ENV", "PAYME_MERCHANT_ID", "PAYME_PASSWORD", "PAYME_PASSWORD_TEST"}
      [] adapter = "payme2" ->
            {"merchant_id", "secret_key", "test_mode", "retries",
             "NODE_ENV", "PAYME_MERCHANT_ID", "PAYME_KEY"}

Relevant(adapter, r) == \A k \in DOMAIN r : k \notin ReadBy(adapter) => r[k] = {}

\* new X(...) of each adapter class
Constructor(adapter, config, env) ==
    CASE adapter = "click" -> ClickConstructor(config, env)
      [] adapter = "payme" -> PaymeConstructor(config, env)
      [] adapter = "payme2" -> Payme2Constructor(config, env)

Construct(adapter) ==
    /\ built = {}
    /\ applied = {}
    /\ \E config \in Configs, env \in Envs :
        /\ Relevant(adapter, config)
        /\ Relevant(adapter, env)
        /\ built' = {[adapter |-> adapter, config |-> config, env |-> env,
                      out |-> Constructor(adapter, config, env)]}
    /\ UNCHANGED <<calls, applied, now, paymeCfg, paymeLast, trail, clickCfg, clickLast, prepares, probe,
                   httpClient, call>>

\* new ClickProvider(httpClient, config)
ConstructClick == Construct("click")

\* new PaymeProvider(httpClient, config)
ConstructPayme == Construct("payme")

\* new PaymeProvider(config), the second class of that name
ConstructPayme2 == Construct("payme2")

-----------------------------------------------------------------------------
(* Payment URLs: steps *)

\* order.extra_params: undefined, empty, a key the URL's own parameters use, or
\* another key.
ExtraChoices ==
    { {}, {<<>>},
      { << <<"amount", Str(<<"1">>)>> >> },
      { << <<"transaction_param", Str(<<"x">>)>> >> },
      { << <<"order_id", Str(<<"x">>)>> >> },
      { << <<"note", Str(<<"x">>)>> >> } }

UrlOrders ==
    [id : {"order_1", "order_2"},
     amount : { {0}, {1}, {1000}, {100000} },
     extra_params : ExtraChoices]

\* A caller asks an adapter for the payment URL of an order.
MakeUrl ==
    /\ applied = {}
    /\ \E adapter \in Adapters, order \in UrlOrders :
        applied' = {[adapter |-> adapter, order |-> order,
                     out |-> generatePaymentUrl(adapter, order)]}
    /\ UNCHANGED <<calls, now, paymeCfg, paymeLast, trail, clickCfg, clickLast, prepares, probe,
                   httpClient, call, built>>

-----------------------------------------------------------------------------
(* PaymeProvider.checkTransactionExpiration *)

\* 12 hours in minutes
timeoutDuration == 720

\* createdAt < DateTime.now().minus({ minutes: timeoutDuration }), the dates in
\* milliseconds and t the reading of the clock
checkTransactionExpiration(createdAt, t) == createdAt < t - timeoutDuration * 60000

\* Ages of a transaction in milliseconds: every full hour of a day, and a
\* millisecond to either side of 12 hours.
Ages == { h * 3600000 : h \in 0..24 } \cup { 43200000 - 1, 43200000 + 1 }

\* Transactions created before the clock's origin, unpaid, paid or cancelled.
AgedTransactions ==
    [create_time : { 0 - age : age \in Ages }, state : {Created, Completed, Cancelled}]

\* A caller asks whether a transaction has expired.
CheckExpiration ==
    /\ applied = {}
    /\ \E tx \in AgedTransactions :
        applied' = {[transaction |-> tx, time |-> now,
                     out |-> checkTransactionExpiration(tx.create_time, now)]}
    /\ UNCHANGED <<calls, now, paymeCfg, paymeLast, trail, clickCfg, clickLast, prepares, probe,
                   httpClient, call, built>>

-----------------------------------------------------------------------------
(* verifyPayment on a gateway answer: steps *)

\* The raw status of an answer: the integers around the known codes, a missing
\* field, and a number sent as text.
RawStatuses == { Num(n) : n \in -3..3 } \cup { Undef, Str(<<"1">>) }

PaidAmounts == { Num(0), Num(1000), Num(150) }

\* The body of a 2xx answer to verifyPayment with the given status.
VerifyBody(adapter, raw, success, amount) ==
    CASE adapter = "click" ->
            [success |-> success, transaction_id |-> Lit("tx1"), status |-> raw,
             amount |-> amount, payment_time |-> Lit("2024-01-01")]
      [] adapter = "payme" ->
            [result |-> Obj([transaction |-> Lit("tx1"), state |-> raw, amount |-> amount,
                             create_time |-> Num(4), perform_time |-> Num(5)])]
      [] adapter = "payme2" ->
            [success |-> success, transaction_id |-> Lit("tx1"), state |-> raw,
             amount |-> amount, paid_time |-> Lit("2024-01-01")]

\* verifyPayment runs to its end on a 2xx answer of the gateway.
VerifyAnswered ==
    /\ applied = {}
    /\ \E adapter \in Adapters, raw \in RawStatuses, amount \in PaidAmounts :
       \E success \in (IF adapter = "payme" THEN {Bool(TRUE)} ELSE {Bool(TRUE), Bool(FALSE)}) :
        applied' = {[adapter |-> adapter, raw |-> raw,
                     out |-> TryCatch(adapter, "verifyPayment",
                                AfterResponse(adapter, "verifyPayment", {},
                                    {VerifyBody(adapter, raw, success, amount)}))]}
    /\ UNCHANGED <<calls, now, paymeCfg, paymeLast, trail, clickCfg, clickLast, prepares, probe,
                   httpClient, call, built>>

\* PaymeProvider.createPayment sends an order's amount; the gateway keeps the
\* amount it received and reports it when verifyPayment asks.
CreateThenVerify ==
    /\ applied = {}
    /\ \E order \in UrlOrders :
        LET payload == CreatePayload(order, now)
            body == VerifyBody("payme", Num(Completed), Bool(TRUE), Num(payload.params.amount))
        IN  applied' = {[adapter |-> "payme", order |-> order, payload |-> payload,
                         out |-> TryCatch("payme", "verifyPayment",
                                    AfterResponse("payme", "verifyPayment", {}, {body}))]}
    /\ UNCHANGED <<calls, now, paymeCfg, paymeLast, trail, clickCfg, clickLast, prepares, probe,
                   httpClient, call, built>>

-----------------------------------------------------------------------------
(* Gateway B (Payme): steps *)

\* The requests the gateway sends: params present, and the Basic form of a
\* password's token (the adapter's password or another one).
GatewayHeaders == { { { <<"Authorization", BasicPrefix \o Token(pw)>> } } : pw \in Passwords }

GatewayRequests == { r \in PaymeRequests(GatewayHeaders) : r.params # {} }

Answer(req) == {[req |-> req, out |-> PaymeHandleWebhook(paymeCfg, req, now)]}

\* Any sender posts a request to the webhook endpoint and handleWebhook answers it.
PaymeWebhook ==
    \E req \in PaymeRequests(HeaderChoices) :
        /\ paymeLast' = Answer(req)
        /\ UNCHANGED <<calls, applied, built, now, paymeCfg, trail, clickCfg, clickLast, prepares, probe, httpClient, call>>

\* The gateway calls the webhook; handleWebhook answers and the host persists
\* the transition the answer reports.
PaymeDelivery ==
    \E req \in GatewayRequests :
        LET out == PaymeHandleWebhook(paymeCfg, req, now)
        IN  /\ Reported(req, out) => Len(trail) < MaxTrail
            /\ paymeLast' = Answer(req)
            /\ trail' = IF Reported(req, out)
                        THEN Append(trail, Transition(req, out))
                        ELSE trail
            /\ UNCHANGED <<calls, applied, built, now, paymeCfg, clickCfg, clickLast, prepares, probe, httpClient, call>>

\* The Click webhook endpoint receives a request; handleWebhook answers it.  The
\* merchant_prepare_id values handed out are kept, in order.
ClickWebhook ==
    \E req \in ClickRequests :
        LET out == ClickHandleWebhook(clickCfg, req, now)
            prepared == "merchant_prepare_id" \in DOMAIN out.value
        IN  /\ prepared => Len(prepares) < MaxPrepares
            /\ clickLast' = {[req |-> req, out |-> out]}
            /\ prepares' = IF prepared
                           THEN Append(prepares, out.value.merchant_prepare_id)
                           ELSE prepares
            /\ UNCHANGED <<calls, applied, built, now, paymeCfg, paymeLast, trail, clickCfg, probe, httpClient, call>>

\* The gateway calls the Click webhook with a validly signed Prepare or
\* Complete; handleWebhook answers and the host keeps what the answer reports.
ClickDelivery ==
    /\ Len(trail) < MaxTrail
    /\ \E req \in ClickRequests :
        /\ verifyWebhookSignature(clickCfg, req)
        /\ req.action \in {Num(0), Num(1)}
        /\ LET out == ClickHandleWebhook(clickCfg, req, now)
           IN  trail' = Append(trail,
                    [action |-> req.action.num,
                     id |-> req.click_trans_id,
                     error |-> out.value.error,
                     prepared |-> "merchant_prepare_id" \in DOMAIN out.value,
                     confirmed |-> "merchant_confirm_id" \in DOMAIN out.value])
    /\ UNCHANGED <<calls, applied, built, now, paymeCfg, paymeLast, clickCfg, clickLast, prepares,
                   probe, httpClient, call>>

\* A sender takes a request that passes verifyWebhookSignature, changes the
\* value of one field and submits it.
ClickFields == DOMAIN ClickFieldValues \cup {"sign_string"}

ClickAlternatives(req, f) ==
    (IF f = "sign_string" THEN ClickSignatures(req) ELSE ClickFieldValues[f]) \ {req[f]}

TamperClick ==
    /\ probe = {}
    /\ \E req \in ClickRequests, f \in ClickFields :
        /\ verifyWebhookSignature(clickCfg, req)
        /\ \E v \in ClickAlternatives(req, f) :
            LET tampered == [req EXCEPT ![f] = v]
            IN  probe' = {[gateway |-> "A", field |-> f, before |-> req, after |-> tampered,
                           verified |-> verifyWebhookSignature(clickCfg, tampered)]}
    /\ UNCHANGED <<calls, applied, built, now, paymeCfg, paymeLast, trail, clickCfg, clickLast, prepares, httpClient, call>>

\* Requests before signing whose signed fields take all their values.
SignedTuples ==
    [click_trans_id    : ClickFieldValues.click_trans_id,
     service_id        : ClickFieldValues.service_id,
     click_paydoc_id   : { Str(<<"9">>) },
     merchant_trans_id : { Str(<<"o", "1">>) },
     amount            : ClickFieldValues.amount,
     action            : { Num(0), Num(1) },
     sign_time         : { Str(<<"7">>) },
     error             : { Num(0) },
     error_note        : { Str(<<"o", "k">>) },
     merchant_prepare_id : { Undef }]

\* The gateway signs one request; a sender submits it, and a second request
\* under the same sign_string.
VerifyPair ==
    /\ applied = {}
    /\ \E r1 \in SignedTuples, r2 \in SignedTuples :
        LET sig == Str(generateSignature(clickCfg, signParams(r1)))
            first == WithSign(r1, sig)
            second == WithSign(r2, sig)
        IN  applied' = {[first |-> first, second |-> second,
                         verified |-> <<verifyWebhookSignature(clickCfg, first),
                                        verifyWebhookSignature(clickCfg, second)>>]}
    /\ UNCHANGED <<calls, built, now, paymeCfg, paymeLast, trail, clickCfg, clickLast, prepares,
                   probe, httpClient, call>>

\* The same for a request that passes verifyWebhookAuthorization.
PaymeFields == {"method", "params", "headers"}

PaymeAlternatives(req, f) ==
    (CASE f = "method" -> PaymeMethods \cup OtherMethods
       [] f = "params" -> ParamChoices
       [] f = "headers" -> HeaderChoices) \ {req[f]}

TamperPayme ==
    /\ probe = {}
    /\ \E req \in PaymeRequests(HeaderChoices), f \in PaymeFields :
        /\ verifyWebhookAuthorization(paymeCfg, req)
        /\ \E v \in PaymeAlternatives(req, f) :
            LET tampered == [req EXCEPT ![f] = v]
            IN  probe' = {[gateway |-> "B", field |-> f, before |-> req, after |-> tampered,
                           verified |-> verifyWebhookAuthorization(paymeCfg, tampered)]}
    /\ UNCHANGED <<calls, applied, built, now, paymeCfg, paymeLast, trail, clickCfg, clickLast, prepares, httpClient, call>>

\* params of CreateTransaction: id, the gateway's time, and the amount in tiyin.
CreateParams ==
    { { [id |-> i, time |-> tm, amount |-> a] } : i \in Ids, tm \in {5, 6}, a \in {100, 5000000} }

\* params of GetStatement: the window [from, to], in the clock's readings.
StatementParams == { { [from |-> f, to |-> t] } : f \in 0..MaxClock, t \in 0..MaxClock }

LedgerRequests ==
    [method : {"CreateTransaction"}, params : CreateParams, headers : GatewayHeaders]
        \cup [method : {"GetStatement"}, params : StatementParams, headers : GatewayHeaders]

\* What the host persists of a CreateTransaction answer: the transaction and
\* its creation time.
Creation(out) ==
    LET r == CHOOSE x \in out.value.result : TRUE
    IN  [method |-> "CreateTransaction", id |-> r.transaction, state |-> r.state,
         time |-> r.create_time]

\* The gateway creates transactions and asks for statements; the host persists
\* each transaction the answers report as created.  at is the clock's reading
\* during the call.
PaymeLedger ==
    \E req \in LedgerRequests :
        LET out == PaymeHandleWebhook(paymeCfg, req, now)
        IN  /\ Reported(req, out) => Len(trail) < MaxLedger
            /\ paymeLast' = {[req |-> req, out |-> out, at |-> now]}
            /\ trail' = IF Reported(req, out) THEN Append(trail, Creation(out)) ELSE trail
            /\ UNCHANGED <<calls, applied, built, now, paymeCfg, clickCfg, clickLast, prepares, probe, httpClient, call>>

\* The fields verifyWebhookSignature reads.
SignedFields ==
    {"click_trans_id", "service_id", "click_paydoc_id", "merchant_trans_id",
     "amount", "action", "sign_time"}

\* The Click webhook endpoint receives a request that lacks one of the signed
\* fields.  Its sign_string is the one made for the complete request, one made
\* for the request as it arrives, or no digest at all.
ClickMalformed ==
    /\ paymeLast = {}
    /\ clickLast = {}
    /\ \E req \in ClickRequests, f \in SignedFields :
        LET absent == [req EXCEPT ![f] = Undef]
        IN  \E sig \in {req.sign_string} \cup ClickSignatures(absent) :
                LET r == [absent EXCEPT !.sign_string = sig]
                IN  clickLast' = {[req |-> r, out |-> ClickHandleWebhook(clickCfg, r, now)]}
    /\ UNCHANGED <<calls, applied, built, now, paymeCfg, paymeLast, trail, clickCfg, prepares, probe, httpClient, call>>

\* The Payme webhook endpoint receives a request that has no params.
PaymeMalformed ==
    /\ paymeLast = {}
    /\ clickLast = {}
    /\ \E req \in PaymeRequests(HeaderChoices) :
        /\ req.params = {}
        /\ paymeLast' = Answer(req)
    /\ UNCHANGED <<calls, applied, built, now, paymeCfg, trail, clickCfg, clickLast, prepares, probe, httpClient, call>>

-----------------------------------------------------------------------------
(* Outbound calls: steps *)

HttpRetries == {0, 1, DefaultRetries}

Orders ==
    { [id |-> "order_1", amount |-> {1000}, extra_params |-> {}],
      [id |-> "order_1", amount |-> {}, extra_params |-> {}] }

ErrorBody == Obj([code |-> Lit("DECLINED"), message |-> Lit("declined")])

\* response.data of a 2xx answer: what the gateway sends on success, what it
\* sends when it declines, an empty object, and no body at all.
Bodies(adapter) ==
    CASE adapter = "click" ->
            [ok |-> {[success |-> Bool(TRUE), transaction_id |-> Lit("tx1"),
                      status |-> Num(1), amount |-> Num(1000),
                      payment_time |-> Lit("2024-01-01")]},
             declined |-> {[success |-> Bool(FALSE), transaction_id |-> Lit("tx1"),
                            status |-> Num(-1), amount |-> Num(0), error |-> ErrorBody]},
             object |-> {<<>>},
             empty |-> {}]
      [] adapter = "payme" ->
            [ok |-> {[result |-> Obj([transaction |-> Lit("tx1"), state |-> Num(2),
                                      amount |-> Num(100000), create_time |-> Num(4),
                                      perform_time |-> Num(5)])]},
             declined |-> {[error |-> ErrorBody]},
             object |-> {<<>>},
             empty |-> {}]
      [] adapter = "payme2" ->
            [ok |-> {[success |-> Bool(TRUE), transaction_id |-> Lit("tx1"),
                      state |-> Num(2), amount |-> Num(1000),
                      paid_time |-> Lit("2024-01-01")]},
             declined |-> {[success |-> Bool(FALSE), transaction_id |-> Lit("tx1"),
                            state |-> Num(-1), amount |-> Num(0), error |-> ErrorBody]},
             object |-> {<<>>},
             empty |-> {}]

Failures ==
    [http500 |-> AxiosStatus(500),
     http429 |-> AxiosStatus(429),
     http404 |-> AxiosStatus(404),
     timeout |-> AxiosTimeout,
     network |-> AxiosNetwork,
     plain   |-> PlainError("Network error"),
     aborted |-> PlainError("socket hang up ECONNABORTED"),
     value   |-> NotAnError]

Idle ==
    [pc |-> "idle", adapter |-> "none", op |-> "none", order |-> {}, attempt |-> 0,
     lastError |-> {}, answers |-> <<>>, waited |-> <<>>, out |-> {}]

\* A caller invokes an operation of an adapter: the operation runs to its
\* await, or to its end when it sends nothing or throws before sending.
StartCall ==
    /\ call.pc = "idle"
    /\ \E adapter \in Adapters, op \in Operations :
        \E order \in (IF op = "createPayment" THEN { {o} : o \in Orders } ELSE { {} }) :
            LET before == BeforeRequest(adapter, op, order)
                started == [Idle EXCEPT !.adapter = adapter, !.op = op, !.order = order]
            IN  call' = IF before = Return(Await)
                        THEN [started EXCEPT !.pc = "request"]
                        ELSE [started EXCEPT !.pc = "done",
                                             !.out = {TryCatch(adapter, op, before)}]
    /\ UNCHANGED <<calls, applied, built, now, paymeCfg, paymeLast, trail, clickCfg, clickLast, prepares,
                   probe, httpClient>>

\* The transport answers the attempt in flight with a 2xx response: request
\* returns it and the operation runs to its end.
TransportResponds ==
    /\ call.pc = "request"
    /\ \E name \in DOMAIN Bodies(call.adapter) :
        call' = [call EXCEPT
                    !.pc = "done",
                    !.answers = Append(@, name),
                    !.out = {TryCatch(call.adapter, call.op,
                                AfterResponse(call.adapter, call.op, call.order,
                                              Bodies(call.adapter)[name]))}]
    /\ UNCHANGED <<calls, applied, built, now, paymeCfg, paymeLast, trail, clickCfg, clickLast, prepares,
                   probe, httpClient>>

\* The attempt in flight fails: request waits and tries again, or throws
\* lastError into the operation's catch block.
TransportFails ==
    /\ call.pc = "request"
    /\ \E name \in DOMAIN Failures :
        LET error == Failures[name]
        IN  call' = IF retries_again(httpClient, call.attempt, error)
                    THEN [call EXCEPT
                            !.pc = "backoff",
                            !.lastError = {error},
                            !.answers = Append(@, name),
                            !.waited = Append(@, backoff(httpClient, call.attempt))]
                    ELSE [call EXCEPT
                            !.pc = "done",
                            !.lastError = {error},
                            !.answers = Append(@, name),
                            !.out = {TryCatch(call.adapter, call.op, Throw(error))}]
    /\ UNCHANGED <<calls, applied, built, now, paymeCfg, paymeLast, trail, clickCfg, clickLast, prepares,
                   probe, httpClient>>

\* A delay whose timer never fires: the call stays in its backoff.
BackoffElapses_NeverResolves ==
    /\ call.pc = "backoff"
    /\ UNCHANGED vars

\* The delay elapses and the loop makes its next attempt.
BackoffElapses ==
    /\ call.pc = "backoff"
    /\ call' = [call EXCEPT !.pc = "request", !.attempt = @ + 1]
    /\ UNCHANGED <<calls, applied, built, now, paymeCfg, paymeLast, trail, clickCfg, clickLast, prepares,
                   probe, httpClient>>

-----------------------------------------------------------------------------
(* Concurrent calls on one adapter instance: steps *)

Callers == {1, 2}

\* A caller that has not called yet.  attempt and lastError are the locals of
\* HttpClient.request; request and time are handleWebhook's argument and the
\* reading of Date.now() it took; among are the callers whose calls were in
\* flight when this one began.
IdleCall ==
    [pc |-> "idle", adapter |-> "none", op |-> "none", order |-> {}, request |-> {},
     time |-> {}, among |-> {}, attempt |-> 0, lastError |-> {}, answers |-> <<>>,
     out |-> {}]

\* The callers whose calls wait for the transport or for a delay.
InFlight(cs) == { j \in DOMAIN cs : cs[j].pc \in {"request", "backoff"} }

NoCalls == [i \in Callers |-> IdleCall]

\* The config and the environment the shared instance is constructed from.
InstanceConfig ==
    [merchant_id |-> {"m1"}, service_id |-> {"23"}, secret_key |-> {<<"s">>},
     login |-> {}, password |-> {<<"k", "1">>}, test_mode |-> {TRUE},
     timeout |-> {}, retries |-> {1}, retry_delay |-> {}]

EmptyEnv == [k \in DOMAIN CHOOSE e \in Envs : TRUE |-> {}]

Instances ==
    { [adapter |-> a, config |-> InstanceConfig, env |-> EmptyEnv,
       out |-> Constructor(a, InstanceConfig, EmptyEnv)] : a \in Adapters }

\* The adapter instance the callers share.
Instance == CHOOSE b \in built : TRUE

\* What the transport does to an attempt: two of the 2xx bodies, a retryable
\* failure and one that is not.
AnsweredBodies == {"ok", "declined"}
AnsweredFailures == {"http500", "http404"}

\* The webhook requests delivered while other calls are in flight.
DeliveredRequests(adapter) ==
    CASE adapter = "click" ->
            { r \in ClickRequests :
                /\ r.click_trans_id = Str(<<"1">>)
                /\ r.error = Num(0)
                /\ r.error_note = Str(<<"o", "k">>)
                /\ r.action \in {Num(0), Num(1)} }
      [] adapter = "payme" ->
            { r \in GatewayRequests :
                /\ r.method \in {"CreateTransaction", "CheckTransaction"}
                /\ \A q \in r.params : q.id = "t1" }
      [] adapter = "payme2" -> {}

\* handleWebhook of the instance's class, t being the reading of Date.now().
HandleWebhook(adapter, request, t) ==
    CASE adapter = "click" -> ClickHandleWebhook(clickCfg, request, t)
      [] adapter = "payme" -> PaymeHandleWebhook(paymeCfg, request, t)

\* An HttpClient that keeps the attempt counter in a field all calls share.
OwnAttempt_Shared(cs, i) ==
    LET RECURSIVE Total(_)
        Total(S) == IF S = {} THEN 0
                    ELSE LET j == CHOOSE x \in S : TRUE
                         IN  cs[j].attempt + Total(S \ {j})
    IN  Total(DOMAIN cs)

\* attempt of `for (let attempt = 0; ...)`: a local of each call of request
OwnAttempt(cs, i) == cs[i].attempt

\* A caller invokes createPayment, verifyPayment or cancelPayment: the
\* operation runs to its await, or to its end when it sends nothing.
Invoke(i) ==
    /\ calls[i].pc = "idle"
    /\ \E op \in Operations :
        \E order \in (IF op = "createPayment" THEN { {o} : o \in Orders } ELSE { {} }) :
            LET adapter == Instance.adapter
                before == BeforeRequest(adapter, op, order)
                started == [IdleCall EXCEPT !.adapter = adapter, !.op = op, !.order = order,
                                            !.among = InFlight(calls)]
            IN  calls' = [calls EXCEPT ![i] =
                            IF before = Return(Await)
                            THEN [started EXCEPT !.pc = "request"]
                            ELSE [started EXCEPT !.pc = "done",
                                                 !.out = {TryCatch(adapter, op, before)}]]
    /\ UNCHANGED <<now, paymeCfg, paymeLast, trail, clickCfg, clickLast, prepares, probe,
                   httpClient, call, built, applied>>

\* A caller passes a webhook request to handleWebhook, which answers it.
Deliver(i) ==
    /\ calls[i].pc = "idle"
    /\ \E request \in DeliveredRequests(Instance.adapter) :
        calls' = [calls EXCEPT ![i] =
                    [IdleCall EXCEPT
                        !.pc = "done",
                        !.adapter = Instance.adapter,
                        !.op = "handleWebhook",
                        !.request = {request},
                        !.time = {now},
                        !.among = InFlight(calls),
                        !.out = {HandleWebhook(Instance.adapter, request, now)}]]
    /\ UNCHANGED <<now, paymeCfg, paymeLast, trail, clickCfg, clickLast, prepares, probe,
                   httpClient, call, built, applied>>

\* The transport answers a caller's attempt in flight with a 2xx response.
Responds(i) ==
    /\ calls[i].pc = "request"
    /\ \E name \in AnsweredBodies :
        LET c == calls[i]
        IN  calls' = [calls EXCEPT ![i] =
                        [c EXCEPT
                            !.pc = "done",
                            !.answers = Append(@, name),
                            !.out = {TryCatch(c.adapter, c.op,
                                        AfterResponse(c.adapter, c.op, c.order,
                                                      Bodies(c.adapter)[name]))}]]
    /\ UNCHANGED <<now, paymeCfg, paymeLast, trail, clickCfg, clickLast, prepares, probe,
                   httpClient, call, built, applied>>

\* A caller's attempt in flight fails: its request waits and tries again, or
\* throws lastError into the operation's catch block.
Fails(i) ==
    /\ calls[i].pc = "request"
    /\ \E name \in AnsweredFailures :
        LET c == calls[i]
            error == Failures[name]
        IN  calls' = [calls EXCEPT ![i] =
                        IF retries_again(httpClient, OwnAttempt(calls, i), error)
                        THEN [c EXCEPT
                                !.pc = "backoff",
                                !.lastError = {error},
                                !.answers = Append(@, name)]
                        ELSE [c EXCEPT
                                !.pc = "done",
                                !.lastError = {error},
                                !.answers = Append(@, name),
                                !.out = {TryCatch(c.adapter, c.op, Throw(error))}]]
    /\ UNCHANGED <<now, paymeCfg, paymeLast, trail, clickCfg, clickLast, prepares, probe,
                   httpClient, call, built, applied>>

\* A caller's delay elapses and its loop makes the next attempt.
Elapses(i) ==
    /\ calls[i].pc = "backoff"
    /\ calls' = [calls EXCEPT ![i] = [@ EXCEPT !.pc = "request", !.attempt = @ + 1]]
    /\ UNCHANGED <<now, paymeCfg, paymeLast, trail, clickCfg, clickLast, prepares, probe,
                   httpClient, call, built, applied>>

-----------------------------------------------------------------------------
(* An adapter constructed with a retry limit, and its outbound calls: steps *)

\* config.retries as the host passes it: absent, 0 or 1.
RetriesChoices == { {}, {0}, {1} }

\* The fields of the HttpClient the second PaymeProvider makes for itself.
OwnClient(h) ==
    [retries |-> CHOOSE x \in h.retries : TRUE,
     retryDelay |-> CHOOSE x \in h.retryDelay : TRUE]

\* The host constructs an adapter.  ClickProvider and PaymeProvider are handed
\* the host's HttpClient; the second PaymeProvider makes its own from its config.
ConstructInstance ==
    /\ built = {}
    /\ call.pc = "idle"
    /\ \E adapter \in Adapters, retries \in RetriesChoices :
        LET config == [InstanceConfig EXCEPT !.retries = retries]
            out == Constructor(adapter, config, EmptyEnv)
        IN  /\ built' = {[adapter |-> adapter, config |-> config, env |-> EmptyEnv,
                          out |-> out]}
            /\ httpClient' = IF adapter = "payme2" /\ out.kind = "return"
                             THEN OwnClient(out.value.httpClient)
                             ELSE httpClient
    /\ UNCHANGED <<calls, applied, now, paymeCfg, paymeLast, trail, clickCfg, clickLast, prepares,
                   probe, call>>

\* A caller invokes an operation of the constructed adapter.
InvokeInstance ==
    /\ built # {}
    /\ Instance.out.kind = "return"
    /\ call.pc = "idle"
    /\ \E op \in Operations :
        \E order \in (IF op = "createPayment" THEN { {o} : o \in Orders } ELSE { {} }) :
            LET adapter == Instance.adapter
                before == BeforeRequest(adapter, op, order)
                started == [Idle EXCEPT !.adapter = adapter, !.op = op, !.order = order]
            IN  call' = IF before = Return(Await)
                        THEN [started EXCEPT !.pc = "request"]
                        ELSE [started EXCEPT !.pc = "done",
                                             !.out = {TryCatch(adapter, op, before)}]
    /\ UNCHANGED <<calls, applied, built, now, paymeCfg, paymeLast, trail, clickCfg, clickLast,
                   prepares, probe, httpClient>>

\* The clock advances by a millisecond.
Tick ==
    /\ now < MaxClock
    /\ now' = now + 1
    /\ UNCHANGED <<calls, applied, built, paymeCfg, paymeLast, trail, clickCfg, clickLast, prepares, probe, httpClient, call>>

Init ==
    /\ now = 0
    /\ paymeCfg \in [login : {DefaultLogin}, password : Passwords]
    /\ paymeLast = {}
    /\ trail = <<>>
    /\ clickCfg = [secret_key |-> <<"s">>]
    /\ clickLast = {}
    /\ prepares = <<>>
    /\ probe = {}
    /\ httpClient = [retries |-> DefaultRetries, retryDelay |-> DefaultRetryDelay]
    /\ call = Idle
    /\ built = {}
    /\ applied = {}
    /\ calls = NoCalls

InitClick ==
    /\ now = 0
    /\ paymeCfg = [login |-> DefaultLogin, password |-> <<"k", "1">>]
    /\ paymeLast = {}
    /\ trail = <<>>
    /\ clickCfg \in [secret_key : Secrets]
    /\ clickLast = {}
    /\ prepares = <<>>
    /\ probe = {}
    /\ httpClient = [retries |-> DefaultRetries, retryDelay |-> DefaultRetryDelay]
    /\ call = Idle
    /\ built = {}
    /\ applied = {}
    /\ calls = NoCalls

\* The Payme transaction lifecycle as the gateway drives it.
Next == PaymeDelivery

Spec == Init /\ [][Next]_vars

\* The Payme webhook endpoint under arbitrary requests.
NextAuth == PaymeWebhook \/ Tick

SpecAuth == Init /\ [][NextAuth]_vars

-----------------------------------------------------------------------------
(* Gateway B (Payme): properties *)

\* The transitions reported for transaction i, in order.
TrailOf(i) == SelectSeq(trail, LAMBDA e : e.id = i)
MethodsOf(i) == [k \in 1..Len(TrailOf(i)) |-> TrailOf(i)[k].method]

\* C1: after the authorized sequence CreateTransaction(id), PerformTransaction(id),
\* CancelTransaction(id), the CancelTransaction response reports state
\* CancelledAfterComplete (-2).
C1_CancelAfterPerformIsCancelledAfterComplete ==
    \A i \in Ids :
        MethodsOf(i) = <<"CreateTransaction", "PerformTransaction", "CancelTransaction">>
            => TrailOf(i)[3].state = CancelledAfterComplete

\* C35: PerformTransaction(id) reports state Completed only if a
\* CreateTransaction(id) was answered earlier and no CancelTransaction(id) was
\* answered since; a cancelled or never-created transaction is never reported
\* as Completed.
C35_PerformOnlyAfterCreate ==
    \A k \in 1..Len(trail) :
        (trail[k].method = "PerformTransaction" /\ trail[k].state = Completed) =>
            \E j \in 1..(k - 1) :
                /\ trail[j].method = "CreateTransaction"
                /\ trail[j].id = trail[k].id
                /\ \A m \in (j + 1)..(k - 1) :
                        ~(trail[m].method = "CancelTransaction" /\ trail[m].id = trail[k].id)

\* The last call was an authorized CheckTransaction that returned a result.
CheckAnswered(c) ==
    /\ c.req.method = "CheckTransaction"
    /\ c.out.kind = "return"
    /\ c.out.value.result # {}

\* C2: CheckTransaction(id) reports the state last reported for id, with
\* perform_time set only if the transaction was performed and cancel_time set
\* only if it was cancelled.
C2_CheckTransactionReportsSnapshot ==
    \A c \in paymeLast :
        CheckAnswered(c) =>
            \A r \in c.out.value.result :
                LET t == TrailOf(r.transaction)
                    ms == { t[k].method : k \in 1..Len(t) }
                IN  Len(t) > 0 =>
                        /\ r.state = t[Len(t)].state
                        /\ r.perform_time # {} => "PerformTransaction" \in ms
                        /\ r.cancel_time # {} => "CancelTransaction" \in ms

\* The last call was an authorized call of method m that returned a result.
Answered(c, m) ==
    /\ c.req.method = m
    /\ c.req.params # {}
    /\ c.out.kind = "return"
    /\ c.out.value.result # {}

\* C13: after the authorized sequence CreateTransaction(id),
\* PerformTransaction(id), the PerformTransaction response reports
\* transaction = id, state Completed (2) and a perform_time.
C13_PerformAfterCreateIsCompleted ==
    \A c \in paymeLast :
        (/\ Answered(c, "PerformTransaction")
         /\ MethodsOf(Params(c.req).id) = <<"CreateTransaction", "PerformTransaction">>)
            => \A r \in c.out.value.result :
                    /\ r.transaction = Params(c.req).id
                    /\ r.state = Completed
                    /\ "perform_time" \in DOMAIN r

\* PerformTransaction(t2) was answered with state Completed after CreateTransaction(t2).
C13_Witness ==
    \E c \in paymeLast :
        /\ Answered(c, "PerformTransaction")
        /\ Params(c.req).id = "t2"
        /\ MethodsOf("t2") = <<"CreateTransaction", "PerformTransaction">>
        /\ \E r \in c.out.value.result : r.transaction = "t2" /\ r.state = Completed

\* C14: after the authorized sequence CreateTransaction(id),
\* CancelTransaction(id) with no PerformTransaction in between, the
\* CancelTransaction response reports transaction = id, state Cancelled (-1)
\* and a cancel_time.
C14_CancelAfterCreateIsCancelled ==
    \A c \in paymeLast :
        (/\ Answered(c, "CancelTransaction")
         /\ MethodsOf(Params(c.req).id) = <<"CreateTransaction", "CancelTransaction">>)
            => \A r \in c.out.value.result :
                    /\ r.transaction = Params(c.req).id
                    /\ r.state = Cancelled
                    /\ "cancel_time" \in DOMAIN r

\* CancelTransaction(t1) was answered with state Cancelled after CreateTransaction(t1).
C14_Witness ==
    \E c \in paymeLast :
        /\ Answered(c, "CancelTransaction")
        /\ Params(c.req).id = "t1"
        /\ MethodsOf("t1") = <<"CreateTransaction", "CancelTransaction">>
        /\ \E r \in c.out.value.result : r.transaction = "t1" /\ r.state = Cancelled

\* The request's Authorization header is exactly 'Basic ' followed by the stored token.
ExactlyAuthorized(c) ==
    /\ c.req.headers # {}
    /\ <<"Authorization", BasicPrefix \o authorization(paymeCfg)>> \in UNION c.req.headers

AuthorizationFailed(c) ==
    /\ c.out.kind = "return"
    /\ c.out.value.result = {}
    /\ \E e \in c.out.value.error : e.code = AuthorizationFailure

\* C4: handleWebhook reaches method dispatch only when the Authorization header
\* is exactly 'Basic ' followed by the stored token; in every other case it
\* returns error AuthorizationFailure (-32504) with no result, whatever the method.
C4_DispatchOnlyWhenAuthorized ==
    \A c \in paymeLast :
        /\ ExactlyAuthorized(c) => ~AuthorizationFailed(c)
        /\ ~ExactlyAuthorized(c) => AuthorizationFailed(c)

\* An unrecognized method under a 'Basic ' header with another password's token
\* was answered with AuthorizationFailure.
C4_Witness ==
    \E c \in paymeLast :
        /\ c.req.method \in OtherMethods
        /\ \E a \in AuthHeader(c.req) : startsWith(a, BasicPrefix) /\ Len(a) > Len(BasicPrefix)
        /\ ~ExactlyAuthorized(c)
        /\ AuthorizationFailed(c)

\* The fields of the result each handler builds.
ResultFields(m) ==
    CASE m = "CheckPerformTransaction" -> {"allow"}
      [] m = "CreateTransaction" -> {"create_time", "transaction", "state"}
      [] m = "PerformTransaction" -> {"transaction", "perform_time", "state"}
      [] m = "CancelTransaction" -> {"transaction", "cancel_time", "state"}
      [] m = "CheckTransaction" ->
            {"create_time", "perform_time", "cancel_time", "transaction", "state", "reason"}
      [] m = "GetStatement" -> {"transactions"}

\* C16: with valid authorization, a method outside the six listed ones is
\* answered with error MethodNotFound (-32601) and no result, and each of the six
\* listed methods is answered by its own handler.
C16_UnknownMethodNotFound ==
    \A c \in paymeLast :
        ExactlyAuthorized(c) =>
            /\ c.req.method \notin PaymeMethods =>
                    /\ c.out.kind = "return"
                    /\ c.out.value.result = {}
                    /\ \E e \in c.out.value.error : e.code = MethodNotFound
            /\ (c.req.method \in PaymeMethods /\ c.req.params # {}) =>
                    /\ c.out.kind = "return"
                    /\ c.out.value.error = {}
                    /\ \E r \in c.out.value.result : DOMAIN r = ResultFields(c.req.method)

\* An authorized call of an unrecognized method was answered with MethodNotFound.
C16_Witness ==
    \E c \in paymeLast :
        /\ ExactlyAuthorized(c)
        /\ c.req.method \in OtherMethods
        /\ c.req.params # {}
        /\ \E e \in c.out.value.error : e.code = MethodNotFound

\* C17: every response of handleWebhook, authorized or not and for any method,
\* contains exactly one of the fields result and error.
C17_ResultXorError ==
    \A c \in paymeLast :
        c.out.kind = "return" =>
            /\ Cardinality(c.out.value.result) + Cardinality(c.out.value.error) = 1
            /\ DOMAIN c.out.value = {"result", "error"}

\* A request without headers was answered with an error and no result.
C17_Witness ==
    \E c \in paymeLast :
        /\ c.req.headers = {}
        /\ c.req.method = "GetStatement"
        /\ c.out.kind = "return"
        /\ c.out.value.result = {}
        /\ c.out.value.error # {}

\* Transactions created over time, and the statements asked for.
NextLedger == PaymeLedger \/ Tick

SpecLedger == Init /\ [][NextLedger]_vars

\* C15: an authorized CreateTransaction is answered with a result whose
\* transaction is params.id, whose state is Created (1) and whose create_time is
\* the clock's reading during the call, for every id, time and amount.
C15_CreateReportsCreated ==
    \A c \in paymeLast :
        Answered(c, "CreateTransaction") =>
            \A r \in c.out.value.result :
                /\ r.transaction = Params(c.req).id
                /\ r.state = Created
                /\ r.create_time = c.at

\* CreateTransaction(t1, time 6, amount 5000000), called when the clock read 1,
\* was answered with create_time 1.
C15_Witness ==
    \E c \in paymeLast :
        /\ Answered(c, "CreateTransaction")
        /\ Params(c.req) = [id |-> "t1", time |-> 6, amount |-> 5000000]
        /\ c.at = 1
        /\ \E r \in c.out.value.result :
                r.transaction = "t1" /\ r.state = Created /\ r.create_time = 1

\* The ids of the transactions created within [from, to].
CreatedWithin(from, to) ==
    { trail[k].id : k \in { j \in 1..Len(trail) : from <= trail[j].time /\ trail[j].time <= to } }

\* C18: GetStatement(from, to) returns exactly the transactions created by
\* earlier CreateTransaction calls whose creation time lies within [from, to].
C18_StatementListsCreatedWithin ==
    \A c \in paymeLast :
        Answered(c, "GetStatement") =>
            \A r \in c.out.value.result :
                { r.transactions[k].transaction : k \in 1..Len(r.transactions) }
                    = CreatedWithin(Params(c.req).from, Params(c.req).to)

InitTamper ==
    /\ now = 0
    /\ paymeCfg \in [login : {DefaultLogin}, password : Passwords]
    /\ paymeLast = {}
    /\ trail = <<>>
    /\ clickCfg \in [secret_key : Secrets]
    /\ clickLast = {}
    /\ prepares = <<>>
    /\ probe = {}
    /\ httpClient = [retries |-> DefaultRetries, retryDelay |-> DefaultRetryDelay]
    /\ call = Idle
    /\ built = {}
    /\ applied = {}
    /\ calls = NoCalls

\* Verification of either webhook under a change of one field of a request.
NextTamper == TamperClick \/ TamperPayme

SpecTamper == InitTamper /\ [][NextTamper]_vars

InitOutbound ==
    /\ now = 0
    /\ paymeCfg = [login |-> DefaultLogin, password |-> <<"k", "1">>]
    /\ paymeLast = {}
    /\ trail = <<>>
    /\ clickCfg = [secret_key |-> <<"s">>]
    /\ clickLast = {}
    /\ prepares = <<>>
    /\ probe = {}
    /\ httpClient \in [retries : HttpRetries, retryDelay : {DefaultRetryDelay}]
    /\ call = Idle
    /\ built = {}
    /\ applied = {}
    /\ calls = NoCalls

\* One outbound call of an adapter through HttpClient.request.
NextOutbound == StartCall \/ TransportResponds \/ TransportFails \/ BackoffElapses

SpecOutbound == InitOutbound /\ [][NextOutbound]_vars

\* The Click webhook endpoint under arbitrary requests.
NextClick == ClickWebhook \/ Tick

SpecClick == InitClick /\ [][NextClick]_vars

-----------------------------------------------------------------------------
(* Gateway A (Click): properties *)

\* The hash of (click_trans_id, service_id, click_paydoc_id, merchant_trans_id,
\* amount, action, sign_time) plus the secret.
ExpectedSignString(r) ==
    Str(md5(ToText(r.click_trans_id) \o ToText(r.service_id)
            \o ToText(r.click_paydoc_id) \o ToText(r.merchant_trans_id)
            \o ToText(r.amount) \o ToText(r.action) \o ToText(r.sign_time)
            \o clickCfg.secret_key))

ValidlySigned(r) == r.sign_string = ExpectedSignString(r)

NoPrepareNorConfirmId(v) ==
    /\ "merchant_prepare_id" \notin DOMAIN v
    /\ "merchant_confirm_id" \notin DOMAIN v

\* C5: a request whose sign_string differs from the hash of the seven signed
\* fields plus the secret is answered with error SignatureFailure (-1) and with
\* neither merchant_prepare_id nor merchant_confirm_id, for every action.
C5_BadSignatureRejectedBeforeDispatch ==
    \A c \in clickLast :
        ~ValidlySigned(c.req) =>
            /\ c.out.kind = "return"
            /\ c.out.value.error = Num(SignatureFailure)
            /\ NoPrepareNorConfirmId(c.out.value)

\* A Prepare signed under another secret was answered with SignatureFailure.
C5_Witness ==
    \E c \in clickLast :
        /\ c.req.action = Num(0)
        /\ ~ValidlySigned(c.req)
        /\ c.req.sign_string # Str(<<"b", "a", "d">>)
        /\ c.out.value.error = Num(SignatureFailure)

\* C9: any two validly signed Prepare calls on one adapter return different
\* merchant_prepare_id values.
C9_PrepareIdsUnique ==
    \A j, k \in 1..Len(prepares) : j # k => prepares[j] # prepares[k]

\* C10: a validly signed Complete with a negative error repeats error and
\* error_note and carries no merchant_confirm_id; with a zero or positive
\* error it carries a merchant_confirm_id and error 0.
C10_CompletePassesFailureThrough ==
    \A c \in clickLast :
        (ValidlySigned(c.req) /\ c.req.action = Num(1)) =>
            /\ c.out.kind = "return"
            /\ (IsNum(c.req.error) /\ c.req.error.num < 0) =>
                    /\ c.out.value.error = c.req.error
                    /\ c.out.value.error_note = c.req.error_note
                    /\ "merchant_confirm_id" \notin DOMAIN c.out.value
            /\ (IsNum(c.req.error) /\ c.req.error.num >= 0) =>
                    /\ "merchant_confirm_id" \in DOMAIN c.out.value
                    /\ c.out.value.error = Num(Success)

\* A validly signed Complete reporting error -5 was answered with error -5.
C10_Witness ==
    \E c \in clickLast :
        /\ ValidlySigned(c.req)
        /\ c.req.action = Num(1)
        /\ c.req.error = Num(-5)
        /\ c.out.value.error = Num(-5)
        /\ "merchant_confirm_id" \notin DOMAIN c.out.value

\* The response of a Prepare: a merchant_prepare_id and no merchant_confirm_id.
PrepareAnswer(v) ==
    /\ "merchant_prepare_id" \in DOMAIN v
    /\ "merchant_confirm_id" \notin DOMAIN v

\* The response of a Complete: a merchant_confirm_id, or the failure the
\* request reported; never a merchant_prepare_id.
CompleteAnswer(c) ==
    /\ "merchant_prepare_id" \notin DOMAIN c.out.value
    /\ \/ "merchant_confirm_id" \in DOMAIN c.out.value
       \/ c.out.value.error = c.req.error /\ c.out.value.error # Num(BadRequest)

\* C11: a validly signed request with action 0 is handled as Prepare, with
\* action 1 as Complete, and with any other action it is answered with error
\* BadRequest (-8) and neither merchant_prepare_id nor merchant_confirm_id.
C11_ActionDispatch ==
    \A c \in clickLast :
        ValidlySigned(c.req) =>
            /\ c.out.kind = "return"
            /\ c.req.action = Num(0) => PrepareAnswer(c.out.value)
            /\ c.req.action = Num(1) => CompleteAnswer(c)
            /\ c.req.action \notin {Num(0), Num(1)} =>
                    /\ c.out.value.error = Num(BadRequest)
                    /\ NoPrepareNorConfirmId(c.out.value)

\* A validly signed request with action 2 was answered with BadRequest.
C11_Witness ==
    \E c \in clickLast :
        /\ ValidlySigned(c.req)
        /\ c.req.action = Num(2)
        /\ c.out.value.error = Num(BadRequest)
        /\ NoPrepareNorConfirmId(c.out.value)

\* The number the response carries is the one the request's text writes.
EchoesNumber(n, text) == IsNum(n) /\ IsStr(text) /\ IntToStr(n.num) = text.str

\* C12: a validly signed request with action 0 is answered with error 0
\* (Success) and a merchant_prepare_id, repeats the request's click_trans_id and
\* merchant_trans_id, and carries no merchant_confirm_id, whatever the
\* request's error field is.
C12_PrepareSucceeds ==
    \A c \in clickLast :
        (ValidlySigned(c.req) /\ c.req.action = Num(0)) =>
            /\ c.out.kind = "return"
            /\ c.out.value.error = Num(Success)
            /\ "merchant_prepare_id" \in DOMAIN c.out.value
            /\ "merchant_confirm_id" \notin DOMAIN c.out.value
            /\ EchoesNumber(c.out.value.click_trans_id, c.req.click_trans_id)
            /\ c.out.value.merchant_trans_id = c.req.merchant_trans_id

\* A validly signed Prepare that carried error -5 was answered with Success.
C12_Witness ==
    \E c \in clickLast :
        /\ ValidlySigned(c.req)
        /\ c.req.action = Num(0)
        /\ c.req.error = Num(-5)
        /\ c.req.click_trans_id = Str(<<"1", "2">>)
        /\ c.out.value.error = Num(Success)
        /\ c.out.value.click_trans_id = Num(12)
        /\ "merchant_prepare_id" \in DOMAIN c.out.value

-----------------------------------------------------------------------------
(* Webhook verification under tampering *)

\* C3 as stated: for every request that passes verification, changing the value
\* of any one field makes verification fail.
C3_AnyTamperingRejected ==
    \A p \in probe : ~p.verified

\* What verification covers: Gateway A's seven signed fields and sign_string,
\* Gateway B's headers.
CoveredFields ==
    {"click_trans_id", "service_id", "click_paydoc_id", "merchant_trans_id",
     "amount", "action", "sign_time", "sign_string", "headers"}

\* C3 amended: changing sign_string or one of the seven signed fields (Gateway
\* A), or the headers (Gateway B), makes verification fail; changing error,
\* error_note or merchant_prepare_id (Gateway A), or method or params (Gateway
\* B), leaves the request verified.
C3_CoveredTamperingRejected ==
    \A p \in probe : p.verified <=> p.field \notin CoveredFields

\* A verified Click request whose amount was changed was rejected.
C3_Witness ==
    \E p \in probe :
        /\ p.gateway = "A"
        /\ p.field = "amount"
        /\ p.before.amount # p.after.amount
        /\ ~p.verified

\* Two requests under one sign_string.
NextPair == VerifyPair

SpecPair == InitClick /\ [][NextPair]_vars

\* C34: two webhook requests whose tuples of signed field values differ never
\* verify against the same sign_string under the same secret, including tuples
\* that differ only in how the same characters are split between adjacent fields.
C34_SignedTuplesUnambiguous ==
    \A a \in applied :
        ("second" \in DOMAIN a /\ signParams(a.first) # signParams(a.second)) =>
            ~(a.verified[1] /\ a.verified[2])

\* The two phases of Click's webhook as the gateway drives them.
NextTwoPhase == ClickDelivery

SpecTwoPhase == InitClick /\ [][NextTwoPhase]_vars

\* C36: a validly signed Complete (action 1) for a click_trans_id is answered
\* with error 0 and a merchant_confirm_id only if a Prepare (action 0) for the
\* same click_trans_id was answered with success earlier.
C36_CompleteOnlyAfterPrepare ==
    \A k \in 1..Len(trail) :
        (trail[k].action = 1 /\ trail[k].error = Num(Success) /\ trail[k].confirmed) =>
            \E j \in 1..(k - 1) :
                /\ trail[j].action = 0
                /\ trail[j].id = trail[k].id
                /\ trail[j].error = Num(Success)
                /\ trail[j].prepared

\* Either webhook under a request with a missing field.
NextMalformed == PaymeMalformed \/ ClickMalformed

SpecMalformed == InitTamper /\ [][NextMalformed]_vars

\* C19: a request with a missing field (Gateway B: no params, under valid
\* authorization and a known method; Gateway A: one of the signed fields absent)
\* is answered with an error-coded response; handleWebhook does not raise.
C19_MalformedReportedNotThrown ==
    /\ \A c \in paymeLast :
            (c.req.params = {} /\ ExactlyAuthorized(c) /\ c.req.method \in PaymeMethods) =>
                /\ c.out.kind = "return"
                /\ c.out.value.result = {}
                /\ c.out.value.error # {}
    /\ \A c \in clickLast :
            (\E f \in SignedFields : c.req[f] = Undef) =>
                /\ c.out.kind = "return"
                /\ IsNum(c.out.value.error)
                /\ c.out.value.error.num # Success

-----------------------------------------------------------------------------
(* Construction: properties *)

InitConstruct ==
    /\ now = 0
    /\ paymeCfg = [login |-> DefaultLogin, password |-> <<"k", "1">>]
    /\ paymeLast = {}
    /\ trail = <<>>
    /\ clickCfg = [secret_key |-> <<"s">>]
    /\ clickLast = {}
    /\ prepares = <<>>
    /\ probe = {}
    /\ httpClient = [retries |-> DefaultRetries, retryDelay |-> DefaultRetryDelay]
    /\ call = Idle
    /\ built = {}
    /\ applied = {}
    /\ calls = NoCalls

\* One construction of an adapter from a config and an environment.
NextConstruct == ConstructClick \/ ConstructPayme \/ ConstructPayme2

SpecConstruct == InitConstruct /\ [][NextConstruct]_vars

\* The merchant id is absent (undefined or empty) from the config and from the
\* environment variable of the adapter.
IdAbsent(b) ==
    /\ FalsyName(b.config.merchant_id)
    /\ FalsyName(IF b.adapter = "click" THEN b.env.CLICK_MERCHANT_ID
                 ELSE b.env.PAYME_MERCHANT_ID)

\* The secret the config gives: Click's secret_key, Payme's password.
ExplicitSecret(b) ==
    IF b.adapter = "payme" THEN b.config.password ELSE b.config.secret_key

\* The secret is absent from the config and from the environment.
SecretAbsent(b) ==
    /\ FalsyText(ExplicitSecret(b))
    /\ CASE b.adapter = "click" -> FalsyText(b.env.CLICK_SECRET)
         [] b.adapter = "payme" ->
                FalsyText(b.env.PAYME_PASSWORD) /\ FalsyText(b.env.PAYME_PASSWORD_TEST)
         [] b.adapter = "payme2" -> FalsyText(b.env.PAYME_KEY)

\* The secret the constructed adapter holds.
ResolvedSecret(b) ==
    IF b.adapter = "payme" THEN b.out.value.config.password
    ELSE b.out.value.config.secret_key

MatchingPassword(b) ==
    IF b.out.value.config.test_mode = {TRUE} THEN b.env.PAYME_PASSWORD_TEST
    ELSE b.env.PAYME_PASSWORD

\* C33: whenever PaymeProvider construction succeeds, the resolved password is
\* a present value taken from the explicit config or from the environment
\* variable matching the resolved mode, so production mode with only
\* PAYME_PASSWORD_TEST set constructs no adapter.
C33_PasswordMatchesMode ==
    \A b \in built :
        (b.adapter = "payme" /\ b.out.kind = "return") =>
            /\ ~FalsyText(b.out.value.config.password)
            /\ b.out.value.config.password \in {b.config.password, MatchingPassword(b)}

-----------------------------------------------------------------------------
(* Outbound calls: properties *)

Last(q) == q[Len(q)]

\* HttpClient.request threw: the last attempt of the call failed.
TransportFailed == call.answers # <<>> /\ Last(call.answers) \in DOMAIN Failures

CarriesError(v) ==
    /\ "error" \in DOMAIN v
    /\ DOMAIN v.error = {"obj"}
    /\ {"code", "message"} \subseteq DOMAIN v.error.obj

\* C6: createPayment, verifyPayment and cancelPayment of the adapters never
\* raise: every call completes with a result value, and after a transport
\* failure the result has success false and an error with a code and a message.
C6_OutboundNeverRaises ==
    call.pc = "done" =>
        /\ call.out # {}
        /\ \A o \in call.out :
            /\ o.kind = "return"
            /\ TransportFailed =>
                   /\ o.value.success = Bool(FALSE)
                   /\ CarriesError(o.value)

\* A call whose transport rejected with a value that is not an Error completed
\* with success false.
C6_Witness ==
    /\ call.pc = "done"
    /\ TransportFailed
    /\ Last(call.answers) = "value"
    /\ \E o \in call.out : o.kind = "return" /\ o.value.success = Bool(FALSE)

\* The error's message contains 'timeout' or 'ECONNABORTED'.
IndicatesTimeout(e) ==
    /\ e.isError
    /\ MessageParts(e.message) \cap {"timeout", "ECONNABORTED"} # {}

\* C7: for each operation that reaches the transport, a thrown error that
\* indicates a timeout yields code PAYMENT_TIMEOUT and any other thrown error
\* yields the operation's own code.
C7_TimeoutYieldsPaymentTimeout ==
    (call.pc = "done" /\ TransportFailed) =>
        \A e \in call.lastError, o \in call.out :
            /\ o.kind = "return"
            /\ CarriesError(o.value)
            /\ o.value.error.obj.code =
                   IF IndicatesTimeout(e) THEN "PAYMENT_TIMEOUT"
                   ELSE CASE call.op = "createPayment" -> "PAYMENT_CREATE_ERROR"
                          [] call.op = "verifyPayment" -> "PAYMENT_VERIFY_ERROR"
                          [] call.op = "cancelPayment" -> "PAYMENT_CANCEL_ERROR"

\* C8: with retry limit 3, when the transport answers HTTP 500 on the first
\* three attempts a fourth attempt is made; if it succeeds verifyPayment returns
\* the success result built from its response, and if it answers HTTP 500 too
\* verifyPayment returns success false with code PAYMENT_VERIFY_ERROR.
C8_RetryScenario ==
    (call.op = "verifyPayment" /\ httpClient.retries = 3) =>
        /\ call.answers \in { <<"http500">>, <<"http500", "http500">>,
                              <<"http500", "http500", "http500">> }
               => call.pc \in {"backoff", "request"}
        /\ call.answers = <<"http500", "http500", "http500", "ok">>
               => /\ call.pc = "done"
                  /\ \A o \in call.out :
                        /\ o.kind = "return"
                        /\ o.value.success = Bool(TRUE)
                        /\ o.value.status = "completed"
                        /\ o.value.transaction_id = Lit("tx1")
        /\ call.answers = <<"http500", "http500", "http500", "http500">>
               => /\ call.pc = "done"
                  /\ \A o \in call.out :
                        /\ o.kind = "return"
                        /\ o.value.success = Bool(FALSE)
                        /\ CarriesError(o.value)
                        /\ o.value.error.obj.code = "PAYMENT_VERIFY_ERROR"

\* verifyPayment completed on the fourth attempt, after three HTTP 500 answers.
C8_Witness ==
    /\ call.op = "verifyPayment"
    /\ httpClient.retries = 3
    /\ call.pc = "done"
    /\ call.answers = <<"http500", "http500", "http500", "ok">>
    /\ \E o \in call.out : o.kind = "return" /\ o.value.success = Bool(TRUE)

-----------------------------------------------------------------------------
(* Payment URLs: properties *)

NextUrl == MakeUrl

SpecUrl == InitConstruct /\ [][NextUrl]_vars

\* What a reader of the URL finds in it: the parameters after the base, with
\* each encoding undone.
UrlParams(a) ==
    CASE a.adapter = "click" -> a.out.value.query
      [] a.adapter = "payme" -> a.out.value.encodedParams.base64
      [] a.adapter = "payme2" -> a.out.value.encodedParams.base64url.json.entries

\* The order id the URL carries: Click's transaction_param, Payme's ac.order_id.
DecodedId(a) ==
    CASE a.adapter = "click" -> Lookup(UrlParams(a), "transaction_param")
      [] a.adapter = "payme" -> Lookup(Lookup(UrlParams(a), "ac").json.entries, "order_id")
      [] a.adapter = "payme2" -> Lookup(Lookup(UrlParams(a), "ac").entries, "order_id")

\* The amount the URL carries, in the order's unit: Click's amount, Payme's a
\* (in tiyin for the first PaymeProvider).
DecodedAmount(a) ==
    CASE a.adapter = "click" -> ToNumber(Lookup(UrlParams(a), "amount"))
      [] a.adapter = "payme" -> DivideBy100(ToNumber(Lookup(UrlParams(a), "a")))
      [] a.adapter = "payme2" -> ToNumber(Lookup(UrlParams(a), "a"))

\* C21: for every order, also one whose extra_params have the keys amount,
\* transaction_param or order_id, the parameters decoded from
\* generatePaymentUrl(order) give back order.id and order.amount, on each adapter.
C21_UrlRoundTrip ==
    \A a \in applied :
        a.out.kind = "return" =>
            /\ DecodedId(a) = Lit(a.order.id)
            /\ DecodedAmount(a) = Num(AmountOf(a.order))

\* C22: for an order without extra_params, Click's URL has transaction_param
\* equal to order.id and amount equal to order.amount.amount, unscaled.
C22_ClickUrlCarriesIdAndAmount ==
    \A a \in applied :
        (a.adapter = "click" /\ a.order.extra_params = {}) =>
            /\ a.out.kind = "return"
            /\ Lookup(a.out.value.query, "transaction_param") = Lit(a.order.id)
            /\ Lookup(a.out.value.query, "amount") = Str(IntToStr(AmountOf(a.order)))

\* Click's URL for order_2 of amount 100000 carries amount=100000.
C22_Witness ==
    \E a \in applied :
        /\ a.adapter = "click"
        /\ a.order = [id |-> "order_2", amount |-> {100000}, extra_params |-> {}]
        /\ Lookup(a.out.value.query, "amount") = Str(<<"1", "0", "0", "0", "0", "0">>)
        /\ Lookup(a.out.value.query, "transaction_param") = Lit("order_2")

\* C24: Click's createPayment makes no call of the HTTP client, and for every
\* order returns success true with payment_url = generatePaymentUrl(order) and
\* transaction_id = order.id.
C24_ClickCreateSendsNothing ==
    (call.adapter = "click" /\ call.op = "createPayment") =>
        /\ call.pc = "done"
        /\ call.answers = <<>>
        /\ call.attempt = 0
        /\ \A order \in call.order :
                order.amount # {} =>
                    call.out = {Return([success |-> Bool(TRUE),
                                        payment_url |-> generatePaymentUrl("click", order).value,
                                        transaction_id |-> order.id])}

\* Click's createPayment returned the order's URL without a transport attempt.
C24_Witness ==
    /\ call.adapter = "click"
    /\ call.op = "createPayment"
    /\ call.pc = "done"
    /\ call.answers = <<>>
    /\ \E o \in call.out :
            /\ o.kind = "return"
            /\ o.value.success = Bool(TRUE)
            /\ o.value.transaction_id = "order_1"
            /\ Lookup(o.value.payment_url.query, "transaction_param") = Lit("order_1")

-----------------------------------------------------------------------------
(* Concurrent calls on one adapter instance: properties *)

InitConcurrent ==
    /\ now = 0
    /\ paymeCfg = [login |-> DefaultLogin, password |-> <<"k", "1">>]
    /\ paymeLast = {}
    /\ trail = <<>>
    /\ clickCfg = [secret_key |-> <<"s">>]
    /\ clickLast = {}
    /\ prepares = <<>>
    /\ probe = {}
    /\ httpClient = HttpClientConstructor(30000, 1, DefaultRetryDelay)
    /\ call = Idle
    /\ built \in { {b} : b \in Instances }
    /\ applied = {}
    /\ calls = NoCalls

ACall(i) == Invoke(i) \/ Deliver(i) \/ Responds(i) \/ Fails(i) \/ Elapses(i)

\* The callers' calls interleave at their awaits while the clock advances.
NextConcurrent == Tick \/ \E i \in Callers : ACall(i)

SpecConcurrent == InitConcurrent /\ [][NextConcurrent]_vars

\* HttpClient.request run alone on the transport's answers, from the given attempt.
RECURSIVE Replay(_, _, _)
Replay(c, answers, attempt) ==
    IF answers = <<>> THEN {}
    ELSE LET name == Head(answers)
         IN  IF name \in AnsweredBodies
             THEN {TryCatch(c.adapter, c.op,
                      AfterResponse(c.adapter, c.op, c.order, Bodies(c.adapter)[name]))}
             ELSE IF retries_again(httpClient, attempt, Failures[name])
             THEN Replay(c, Tail(answers), attempt + 1)
             ELSE {TryCatch(c.adapter, c.op, Throw(Failures[name]))}

\* What a call returns when it runs alone with the same input, transport
\* answers and clock reading.
Alone(c) ==
    IF c.op = "handleWebhook"
    THEN { HandleWebhook(c.adapter, r, t) : r \in c.request, t \in c.time }
    ELSE LET before == BeforeRequest(c.adapter, c.op, c.order)
         IN  IF before = Return(Await) THEN Replay(c, c.answers, 0)
             ELSE {TryCatch(c.adapter, c.op, before)}

\* Each finished call returned what it returns alone, and no webhook call
\* reached the transport.
EachCallAsAlone ==
    \A i \in Callers :
        /\ calls[i].pc = "done" => (calls[i].out # {} /\ calls[i].out = Alone(calls[i]))
        /\ calls[i].op = "handleWebhook" =>
                (calls[i].pc = "done" /\ calls[i].answers = <<>>)

\* No step changes the instance (its config, URLs, authorization token), the
\* secrets it reads or the HttpClient's fields.
InstanceKept ==
    /\ built' = built
    /\ clickCfg' = clickCfg
    /\ paymeCfg' = paymeCfg
    /\ httpClient' = httpClient

\* C27: in any interleaving of concurrent createPayment, verifyPayment,
\* cancelPayment and handleWebhook calls on one adapter instance, each call
\* returns what it returns when run alone with the same input, transport
\* responses and clock readings, webhook handlers issue no transport request,
\* and no call changes the instance's config, URLs or authorization token.
C27_NoSharedMutableState == [](EachCallAsAlone) /\ [][InstanceKept]_vars

\* A webhook was answered while a verifyPayment of the other caller was in
\* flight; that call retried once and finished too.
C27_Witness ==
    /\ \A i \in Callers : calls[i].pc = "done"
    /\ calls[1].op = "verifyPayment"
    /\ calls[1].answers = <<"http500", "ok">>
    /\ calls[2].op = "handleWebhook"
    /\ calls[2].among = {1}

-----------------------------------------------------------------------------
(* verifyPayment on a gateway answer: properties *)

NextVerify == VerifyAnswered \/ CreateThenVerify

SpecVerify == InitConstruct /\ [][NextVerify]_vars

\* C23: createPayment sends amount = order.amount.amount * 100 and
\* verifyPayment returns the gateway's amount / 100, so when the gateway reports
\* the amount it received, paid_amount is the order's amount, for every integer
\* amount.
C23_MinorUnitRoundTrip ==
    \A a \in applied :
        "payload" \in DOMAIN a =>
            /\ a.payload.params.amount = AmountOf(a.order) * 100
            /\ a.out.kind = "return"
            /\ a.out.value.paid_amount = Num(AmountOf(a.order))

\* An order of amount 1000 was sent as 100000 and verified as paid_amount 1000.
C23_Witness ==
    \E a \in applied :
        /\ "payload" \in DOMAIN a
        /\ AmountOf(a.order) = 1000
        /\ a.payload.params.amount = 100000
        /\ a.out.value.paid_amount = Num(1000)

\* C25: Click's verifyPayment maps raw status 1 to completed, 0 to pending, -1
\* to cancelled and every other integer to failed.
C25_ClickStatusMapping ==
    \A a \in applied :
        ("raw" \in DOMAIN a /\ a.adapter = "click" /\ IsNum(a.raw)) =>
            /\ a.out.kind = "return"
            /\ a.out.value.status =
                    IF a.raw.num = 1 THEN "completed"
                    ELSE IF a.raw.num = 0 THEN "pending"
                    ELSE IF a.raw.num = -1 THEN "cancelled"
                    ELSE "failed"

\* Click's raw status -2 was mapped to failed.
C25_Witness ==
    \E a \in applied :
        /\ "raw" \in DOMAIN a
        /\ a.adapter = "click"
        /\ a.raw = Num(-2)
        /\ a.out.value.status = "failed"

\* C26: Payme's verifyPayment maps state Completed (2) to completed, Created (1)
\* to pending, Cancelled (-1) and CancelledAfterComplete (-2) to cancelled and
\* every other integer to failed.
C26_PaymeStatusMapping ==
    \A a \in applied :
        ("raw" \in DOMAIN a /\ a.adapter \in {"payme", "payme2"} /\ IsNum(a.raw)) =>
            /\ a.out.kind = "return"
            /\ a.out.value.status =
                    IF a.raw.num = 2 THEN "completed"
                    ELSE IF a.raw.num = 1 THEN "pending"
                    ELSE IF a.raw.num \in {-1, -2} THEN "cancelled"
                    ELSE "failed"

\* C38: every result verifyPayment returns with success false carries an error
\* with a code, and verifyPayment never returns status completed together with
\* success false, for every gateway body including one where the gateway
\* reports success false without an error object.
C38_FailureCarriesError ==
    \A a \in applied :
        ("raw" \in DOMAIN a /\ a.out.kind = "return"
            /\ a.out.value.success = Bool(FALSE)) =>
                /\ CarriesError(a.out.value)
                /\ a.out.value.status # "completed"

-----------------------------------------------------------------------------
(* HttpClient.request: properties *)

\* The attempts of the call that have ended, and among them all but the last.
Ended == Len(call.answers)
Earlier == 1..(Ended - 1)

\* C28: a call of request makes at most retries + 1 attempts, one after
\* another: an attempt is in flight only when every earlier attempt has failed
\* and the delay after each of them has elapsed.
C28_AttemptsBoundedAndSequential ==
    /\ Ended <= httpClient.retries + 1
    /\ \A k \in Earlier : call.answers[k] \in DOMAIN Failures
    /\ call.pc = "request" =>
            /\ Ended = call.attempt
            /\ Len(call.waited) = call.attempt
            /\ call.attempt <= httpClient.retries
    /\ call.pc = "backoff" =>
            /\ Ended = call.attempt + 1
            /\ Len(call.waited) = Ended
            /\ Last(call.answers) \in DOMAIN Failures
    /\ (call.pc = "done" /\ Ended > 0) => Ended = call.attempt + 1

\* With retries 3 a call ended after its fourth attempt failed.
C28_Witness ==
    /\ httpClient.retries = 3
    /\ call.pc = "done"
    /\ Ended = 4
    /\ call.attempt = 3
    /\ Last(call.answers) \in DOMAIN Failures

\* The failures the claim names retryable: timeout / ECONNABORTED of the
\* transport library, network error, HTTP status >= 500, HTTP 429.
RetryableFailures == {"timeout", "network", "http500", "http429"}

\* C29: a retryable failure is retried while attempts remain; a non-retryable
\* failure (HTTP 4xx other than 429, or an error that is not the transport
\* library's) ends the call after that attempt; the error thrown is the one of
\* the last attempt made.
C29_RetriesOnlyRetryable ==
    /\ \A k \in Earlier : call.answers[k] \in RetryableFailures
    /\ (Ended > 0 /\ Last(call.answers) \in DOMAIN Failures) =>
            /\ call.lastError = {Failures[Last(call.answers)]}
            /\ (Last(call.answers) \in RetryableFailures /\ Ended <= httpClient.retries)
                    => call.pc \in {"backoff", "request"}
            /\ (Last(call.answers) \notin RetryableFailures \/ Ended > httpClient.retries)
                    => /\ call.pc = "done"
                       /\ \A o \in call.out :
                            /\ o.kind = "return"
                            /\ CarriesError(o.value)
                            /\ o.value.error.obj.message =
                                   ErrorMessage(Failures[Last(call.answers)])

\* With retries 3 a call ended after one attempt that failed with HTTP 404.
C29_Witness ==
    /\ httpClient.retries = 3
    /\ call.pc = "done"
    /\ call.answers = <<"http404">>
    /\ call.waited = <<>>

\* C30: the delay waited after failed attempt n (n = 0, 1, ...) is
\* retryDelay * 2^n, and no delay is waited after the last attempt of a call.
C30_BackoffSchedule ==
    /\ \A k \in 1..Len(call.waited) : call.waited[k] = httpClient.retryDelay * 2^(k - 1)
    /\ call.pc = "done" /\ Ended > 0 => Len(call.waited) = Ended - 1
    /\ call.pc = "backoff" => Len(call.waited) = Ended

\* A call waited 1000, 2000 and 4000 ms between its four attempts.
C30_Witness ==
    /\ call.waited = <<1000, 2000, 4000>>
    /\ Ended = 4
    /\ call.pc = "done"

-----------------------------------------------------------------------------
(* PaymeProvider.checkTransactionExpiration: properties *)

NextExpiry == CheckExpiration \/ Tick

SpecExpiry == InitConstruct /\ [][NextExpiry]_vars

\* C32: a transaction is reported expired exactly when its age since creation
\* exceeds 12 hours and it remains unpaid; one aged exactly 12 hours, or one
\* that has been paid, is not expired.
C32_ExpiredIffOldAndUnpaid ==
    \A a \in applied :
        "transaction" \in DOMAIN a =>
            (a.out <=> /\ a.time - a.transaction.create_time > 12 * 60 * 60000
                       /\ a.transaction.state # Completed)

-----------------------------------------------------------------------------
(* The configured retry limit *)

\* The host makes an HttpClient with new HttpClient(), constructs an adapter
\* and calls its operations.
NextRetryLimit ==
    ConstructInstance \/ InvokeInstance \/ TransportResponds \/ TransportFails
        \/ BackoffElapses

SpecRetryLimit == InitConstruct /\ [][NextRetryLimit]_vars

\* The retry limit the adapter was configured with: config.retries, or the
\* default when the config has none.
ConfiguredRetries(b) ==
    IF b.config.retries = {} THEN DefaultRetries ELSE CHOOSE r \in b.config.retries : TRUE

\* C37: the configured retry limit is honoured for every value: an adapter
\* configured with retries = 0 performs exactly one transport attempt per
\* outbound call, and the number of attempts of one call never exceeds the
\* configured retries + 1.
C37_ConfiguredRetriesHonoured ==
    \A b \in built :
        /\ Ended <= ConfiguredRetries(b) + 1
        /\ (ConfiguredRetries(b) = 0 /\ call.pc = "done" /\ Ended > 0) => Ended = 1

-----------------------------------------------------------------------------
(* HttpClient.request: termination *)

\* Every attempt in flight ends, by an answer or by a failure (the per-request
\* timeout at the latest), and every delay elapses.
SpecOutboundFair ==
    /\ InitOutbound
    /\ [][NextOutbound]_vars
    /\ WF_vars(TransportResponds \/ TransportFails)
    /\ WF_vars(BackoffElapses)

\* C31: provided every transport attempt eventually succeeds or fails and
\* every backoff delay elapses, each call that reached HttpClient.request
\* (verifyPayment, cancelPayment, Payme's createPayment) eventually completes
\* with a result, whatever failures the transport produces.
C31_OutboundCallsTerminate ==
    (call.pc \in {"request", "backoff"}) ~> (call.pc = "done" /\ call.out # {})

\* A Payme verifyPayment completed with a result after four attempts that
\* failed in four different ways.
C31_Witness ==
    /\ call.pc = "done"
    /\ call.out # {}
    /\ call.adapter = "payme"
    /\ call.op = "verifyPayment"
    /\ call.answers = <<"timeout", "http500", "network", "http429">>

=============================================================================
